---- MODULE Spec2Model ----
(***************************************************************************)
(* Force calculation of ESPResSo (src/core/forces.cpp): the per-step force *)
(* pipeline System::calculate_forces on a domain-decomposed particle       *)
(* system, with its helpers external_force, init_forces,                   *)
(* init_forces_ghosts and force_capping.                                   *)
(*                                                                         *)
(* Forces are double precision vectors in the program.  The model keeps    *)
(* the rounding of binary floating point and reduces its width: a number   *)
(* is m * 2^e with an odd mantissa m of at most Precision bits (or zero),  *)
(* every arithmetic operation rounds to nearest, ties to even.             *)
(***************************************************************************)
EXTENDS Integers, Sequences, FiniteSets, TLC

(* ------------------------------------------------------------------ *)
(* Bounds of the model                                                 *)
(* ------------------------------------------------------------------ *)

\* mantissa width of the modelled floating point numbers (double: 53)
Precision == 6

\* force_capping is exercised on force components in -CapRange..CapRange
CapRange == 4

\* and on force caps in -1..MaxCap
MaxCap == 3

\* gay_berne_set_params is called on particle types 0..NTypes-1
NTypes == 2

\* with elongations k1 and k2 in 1..MaxK
MaxK == 3

(* ------------------------------------------------------------------ *)
(* Binary floating point, round to nearest even                        *)
(* ------------------------------------------------------------------ *)

Abs(n) == IF n < 0 THEN -n ELSE n

Min(a, b) == IF a < b THEN a ELSE b

RECURSIVE BitLen(_)
BitLen(n) == IF n = 0 THEN 0 ELSE 1 + BitLen(n \div 2)

\* the canonical form of N * 2^E: an odd mantissa, or <<0, 0>>
RECURSIVE Norm(_, _)
Norm(N, E) ==
  IF N = 0 THEN <<0, 0>>
  ELSE IF N % 2 = 0 THEN Norm(N \div 2, E + 1)
  ELSE <<N, E>>

\* n * 2^E, n >= 0, rounded to Precision significant bits
RoundMag(n, E) ==
  LET b == BitLen(n) IN
  IF b <= Precision THEN Norm(n, E)
  ELSE LET s == b - Precision
           q == n \div (2 ^ s)
           r == n % (2 ^ s)
           h == 2 ^ (s - 1)
           up == r > h \/ (r = h /\ q % 2 = 1)
       IN Norm(IF up THEN q + 1 ELSE q, E + s)

FNeg(a) == <<-a[1], a[2]>>

FRound(N, E) == IF N >= 0 THEN RoundMag(N, E) ELSE FNeg(RoundMag(-N, E))

\* the double nearest to the integer n
FInt(n) == FRound(n, 0)

FZero == <<0, 0>>

FSign(a) == IF a[1] > 0 THEN 1 ELSE IF a[1] < 0 THEN -1 ELSE 0

FAbs(a) == <<Abs(a[1]), a[2]>>

\* a < b, exactly
FLess(a, b) ==
  LET e == Min(a[2], b[2])
  IN a[1] * (2 ^ (a[2] - e)) < b[1] * (2 ^ (b[2] - e))

FLeq(a, b) == a = b \/ FLess(a, b)

\* a + b, rounded
FAdd(a, b) ==
  LET e == Min(a[2], b[2])
  IN FRound(a[1] * (2 ^ (a[2] - e)) + b[1] * (2 ^ (b[2] - e)), e)

\* whether a + b is computed without rounding
FAddExact(a, b) ==
  LET e == Min(a[2], b[2])
  IN BitLen(Abs(Norm(a[1] * (2 ^ (a[2] - e)) + b[1] * (2 ^ (b[2] - e)), e)[1]))
       <= Precision

FSub(a, b) == FAdd(a, FNeg(b))

\* a * b, rounded
FMul(a, b) == FRound(a[1] * b[1], a[2] + b[2])

\* a / b, rounded (b # 0): the quotient to Precision + 2 bits and a sticky bit
FDiv(a, b) ==
  LET n == Abs(a[1])
      d == Abs(b[1])
      k == Precision + 2 + BitLen(d)
      q == (n * (2 ^ k)) \div d
      st == IF (n * (2 ^ k)) % d = 0 THEN 0 ELSE 1
      mag == RoundMag(2 * q + st, a[2] - b[2] - k - 1)
  IN IF FSign(a) * FSign(b) < 0 THEN FNeg(mag) ELSE mag

\* the integer square root of n, bit by bit
RECURSIVE ISqrtFrom(_, _, _)
ISqrtFrom(n, r, bit) ==
  IF bit = 0 THEN r
  ELSE IF (r + bit) * (r + bit) <= n THEN ISqrtFrom(n, r + bit, bit \div 2)
  ELSE ISqrtFrom(n, r, bit \div 2)

ISqrt(n) == ISqrtFrom(n, 0, 2 ^ 14)

\* sqrt(a), rounded (a >= 0)
FSqrt(a) ==
  IF a[1] = 0 THEN FZero
  ELSE LET k0 == 2 * Precision + 2
           k == IF (a[2] - k0) % 2 = 0 THEN k0 ELSE k0 + 1
           N == a[1] * (2 ^ k)
           r == ISqrt(N)
           st == IF r * r = N THEN 0 ELSE 1
       IN RoundMag(2 * r + st, ((a[2] - k) \div 2) - 1)

(* ------------------------------------------------------------------ *)
(* Utils::Vector3d                                                     *)
(* ------------------------------------------------------------------ *)

VZero == <<FZero, FZero, FZero>>

VInt(x, y, z) == <<FInt(x), FInt(y), FInt(z)>>

VAdd(u, v) == <<FAdd(u[1], v[1]), FAdd(u[2], v[2]), FAdd(u[3], v[3])>>

VNeg(u) == <<FNeg(u[1]), FNeg(u[2]), FNeg(u[3])>>

VSub(u, v) == VAdd(u, VNeg(v))

\* v * s, componentwise
VScale(u, s) == <<FMul(u[1], s), FMul(u[2], s), FMul(u[3], s)>>

\* Vector::norm2: the inner product with itself, accumulated from 0
norm2(u) ==
  FAdd(FAdd(FAdd(FZero, FMul(u[1], u[1])), FMul(u[2], u[2])), FMul(u[3], u[3]))

\* ParticleForce: a force and a torque
ParticleForce(fv, tv) == [f |-> fv, torque |-> tv]

PFZero == ParticleForce(VZero, VZero)

(* ------------------------------------------------------------------ *)
(* force_capping                                                       *)
(* ------------------------------------------------------------------ *)

\* force_capping with the square root forgotten
CapOne_NoSqrt(fv, force_cap) ==
  LET force_cap_sq == FMul(force_cap, force_cap)
      force_sq == norm2(fv)
  IN IF FLess(force_cap_sq, force_sq)
     THEN VScale(fv, FDiv(force_cap, force_sq))
     ELSE fv

\* force_capping with the squared force compared to the cap itself
CapOne_UnsquaredCap(fv, force_cap) ==
  LET force_sq == norm2(fv)
  IN IF FLess(force_cap, force_sq)
     THEN VScale(fv, FDiv(force_cap, FSqrt(force_sq)))
     ELSE fv

\* the capped force of one particle, force_cap > 0
CapOne(fv, force_cap) ==
  LET force_cap_sq == FMul(force_cap, force_cap)
      force_sq == norm2(fv)
  IN IF FLess(force_cap_sq, force_sq)
     THEN VScale(fv, FDiv(force_cap, FSqrt(force_sq)))
     ELSE fv

\* force_capping on every particle the process stores, the range ignored
force_capping_AllParticles(F, particles, force_cap) ==
  IF FLess(FZero, force_cap)
  THEN [i \in DOMAIN F |-> [F[i] EXCEPT !.f = CapOne(F[i].f, force_cap)]]
  ELSE F

\* force_capping(particles, force_cap) on the accumulators F of a process:
\* F maps a particle to its ParticleForce, particles is the range capped
force_capping(F, particles, force_cap) ==
  IF FLess(FZero, force_cap)
  THEN [i \in DOMAIN F |->
          IF i \in particles
          THEN [F[i] EXCEPT !.f = CapOne(F[i].f, force_cap)]
          ELSE F[i]]
  ELSE F

(* ------------------------------------------------------------------ *)
(* The particle system: a periodic box along x, cut into link cells    *)
(* and decomposed over two processes                                   *)
(* ------------------------------------------------------------------ *)

\* number of particles of the system
NParts == 3

\* the non-bonded cutoff of the (single) particle type pair
Cutoff == 2

Parts == 1 .. NParts

Procs == {0, 1}

\* link cells are at least one interaction range wide
CellWidth == Cutoff

Cells == 0 .. 3

BoxL == Cardinality(Cells) * CellWidth

CellOf(x) == x \div CellWidth

\* the places a particle may be at: next to the two process boundaries
\* (between the cells 1|2 and, across the periodic boundary, 3|0)
Sites == {0, 2 * CellWidth - 1, 2 * CellWidth, BoxL - 2, BoxL - 1}

\* the optional contributors of the pipeline
Features ==
  {"bonded", "long_range", "constraints", "oif", "ibm", "lb", "vs", "comfixed",
   "collision"}

Sgn(n) == IF n > 0 THEN 1 ELSE IF n < 0 THEN -1 ELSE 0

\* an integer vector
IVec(x, y, z) == <<x, y, z>>

IZero == <<0, 0, 0>>

IAdd(u, v) == <<u[1] + v[1], u[2] + v[2], u[3] + v[3]>>

INeg(u) == <<-u[1], -u[2], -u[3]>>

VOfI(u) == VInt(u[1], u[2], u[3])

\* an external force large enough for an added unit to be rounded away
BigExt == 5 * (2 ^ (Precision - 2))

(* ------------------------------------------------------------------ *)
(* State                                                               *)
(* ------------------------------------------------------------------ *)

VARIABLES
  cfg,            \* the system: particle properties, force_cap, features
  f,              \* f[q][i]: force_and_torque() of process q's copy of i
  pc,             \* pc[q]: the stage of calculate_forces process q is at
  oif_i,          \* oif_i[q]: the index i of the loop over the OIF objects
  dep,            \* dep[q]: what q has handed to its collectives, in order
  recalc_forces,  \* recalc_forces[q]: propagation->recalc_forces
  nb_calls,       \* nb_calls[<<i, j>>]: calls of the non-bonded callback
  ledger,         \* ledger[i]: the exact sum of the contributions to i
  inexact,        \* whether an accumulation of the step has been rounded
  pre_reduce,     \* f when ghosts_reduce_forces started
  pre_cap,        \* pre_cap[q]: f[q] when force_capping started
  capst,          \* the particle range force_capping is exercised on
  vl,             \* the pair list: the positions, the list, the criterion
  collision_queue,  \* collision_queue[q]: the local collision queue of q
  breakage_queue,   \* breakage_queue[q]: the queue of bond_breakage of q
  gb              \* gay_berne_set_params: the parameter table, the call

vars ==
  <<cfg, f, pc, oif_i, dep, recalc_forces, nb_calls, ledger, inexact,
    pre_reduce, pre_cap, capst, vl,
    collision_queue, breakage_queue, gb>>

(* ------------------------------------------------------------------ *)
(* Domain decomposition                                                *)
(* ------------------------------------------------------------------ *)

\* the process a cell belongs to: two processes, or one for the whole box
CellProc(nprocs, c) == IF nprocs = 1 THEN 0 ELSE c \div 2

Owner(c, nprocs, i) == CellProc(nprocs, CellOf(c.pos[i]))

\* cell_structure->local_particles() and ->ghost_particles() of process q
local_particles(c, nprocs, q) == {i \in Parts : Owner(c, nprocs, i) = q}

ghost_particles(c, nprocs, q) ==
  IF nprocs = 1 THEN {} ELSE {i \in Parts : Owner(c, nprocs, i) # q}

\* the minimum image of a coordinate difference
MinImage(dx) == ((dx + (BoxL \div 2)) % BoxL) - (BoxL \div 2)

\* d.vec21 of the pair (p1, p2), along x
Vec21(c, i, j) == MinImage(c.pos[i] - c.pos[j])

(* ------------------------------------------------------------------ *)
(* Contributions: an entry adds a force and a torque to a particle     *)
(* ------------------------------------------------------------------ *)

Entry(i, fv, tv) == [p |-> i, f |-> fv, t |-> tv]

\* F with the entries of es added, in order
RECURSIVE Apply(_, _)
Apply(F, es) ==
  IF es = <<>> THEN F
  ELSE LET e == Head(es)
       IN Apply([F EXCEPT ![e.p] =
                   ParticleForce(VAdd(F[e.p].f, VOfI(e.f)),
                                 VAdd(F[e.p].torque, VOfI(e.t)))],
                Tail(es))

VAddExact(u, v) ==
  FAddExact(u[1], v[1]) /\ FAddExact(u[2], v[2]) /\ FAddExact(u[3], v[3])

\* whether adding the entries es to F rounds
RECURSIVE ApplyRounds(_, _)
ApplyRounds(F, es) ==
  IF es = <<>> THEN FALSE
  ELSE LET e == Head(es)
       IN \/ ~VAddExact(F[e.p].f, VOfI(e.f))
          \/ ~VAddExact(F[e.p].torque, VOfI(e.t))
          \/ ApplyRounds(Apply(F, <<e>>), Tail(es))

\* the exact sums of the entries, added to the ledger L
RECURSIVE Book(_, _)
Book(L, es) ==
  IF es = <<>> THEN L
  ELSE Book([L EXCEPT ![Head(es).p] = IAdd(@, Head(es).f)], Tail(es))

(* ------------------------------------------------------------------ *)
(* external_force, init_forces, init_forces_ghosts                     *)
(* ------------------------------------------------------------------ *)

NoSwim == [swimming |-> FALSE, on_fluid |-> FALSE, f_swim |-> 0,
           director |-> IVec(0, 1, 0)]

\* the external forces, torques and swimming of the particles:
\* 0 none; 1 a large external force and a torque on particle 1;
\* 2 particle 2 swims; 3 particle 2 swims, its engine force on the fluid
ExtSetup(n) ==
  [ext_force |-> [i \in Parts |->
                    IF n = 1 /\ i = 1 THEN IVec(BigExt, 0, 0) ELSE IZero],
   ext_torque |-> [i \in Parts |->
                    IF n = 1 /\ i = 1 THEN IVec(0, 0, 1) ELSE IZero],
   swim |-> [i \in Parts |->
               IF n \in {2, 3} /\ i = 2
               THEN [swimming |-> TRUE, on_fluid |-> (n = 3), f_swim |-> 1,
                     director |-> IVec(0, 1, 0)]
               ELSE NoSwim]]

\* the Particle i of the system c, as far as the force calculation reads it
Particle(c, i) ==
  [ext_force |-> VOfI(ExtSetup(c.ext).ext_force[i]),
   ext_torque |-> VOfI(ExtSetup(c.ext).ext_torque[i]),
   swimming |-> [swimming |-> ExtSetup(c.ext).swim[i].swimming,
                 is_engine_force_on_fluid |-> ExtSetup(c.ext).swim[i].on_fluid,
                 f_swim |-> FInt(ExtSetup(c.ext).swim[i].f_swim)],
   director |-> VOfI(ExtSetup(c.ext).swim[i].director)]

\* external_force without the test of is_engine_force_on_fluid
external_force_NoFluidCheck(p) ==
  LET f0 == PFZero
      f1 == ParticleForce(VAdd(f0.f, p.ext_force),
                          VAdd(f0.torque, p.ext_torque))
  IN IF p.swimming.swimming
     THEN [f1 EXCEPT !.f = VAdd(f1.f, VScale(p.director, p.swimming.f_swim))]
     ELSE f1

external_force(p) ==
  LET f0 == PFZero
      f1 == ParticleForce(VAdd(f0.f, p.ext_force),
                          VAdd(f0.torque, p.ext_torque))
  IN IF p.swimming.swimming /\ ~p.swimming.is_engine_force_on_fluid
     THEN [f1 EXCEPT !.f = VAdd(f1.f, VScale(p.director, p.swimming.f_swim))]
     ELSE f1

\* init_forces_ghosts that leaves the accumulators as they are
init_forces_ghosts_Keep(F, particles) == F

init_forces_ghosts(F, particles) ==
  [i \in DOMAIN F |-> IF i \in particles THEN PFZero ELSE F[i]]

\* init_forces without the call of external_force
init_forces_NoExternal(F, c, particles, ghosts) ==
  init_forces_ghosts(
    [i \in DOMAIN F |-> IF i \in particles THEN PFZero ELSE F[i]],
    ghosts)

\* init_forces that adds the external force to what the accumulator holds
init_forces_Accumulate(F, c, particles, ghosts) ==
  init_forces_ghosts(
    [i \in DOMAIN F |->
       IF i \in particles
       THEN ParticleForce(VAdd(F[i].f, external_force(Particle(c, i)).f),
                          VAdd(F[i].torque,
                               external_force(Particle(c, i)).torque))
       ELSE F[i]],
    ghosts)

init_forces(F, c, particles, ghosts) ==
  init_forces_ghosts(
    [i \in DOMAIN F |->
       IF i \in particles THEN external_force(Particle(c, i)) ELSE F[i]],
    ghosts)

\* the exact external force of particle i
ExactExternal(c, i) ==
  LET e == ExtSetup(c.ext)
  IN IF e.swim[i].swimming /\ ~e.swim[i].on_fluid
     THEN IAdd(e.ext_force[i],
               <<e.swim[i].f_swim * e.swim[i].director[1],
                 e.swim[i].f_swim * e.swim[i].director[2],
                 e.swim[i].f_swim * e.swim[i].director[3]>>)
     ELSE e.ext_force[i]

(* ------------------------------------------------------------------ *)
(* The short-range pass                                                *)
(* ------------------------------------------------------------------ *)

\* maximal_cutoff(): the largest cutoff of the non-bonded interactions
maximal_cutoff(c) == Cutoff

\* the pair force on p1 of the pair (p1, p2): repulsive, along vec21
PairForce(c, i, j) ==
  LET d == Vec21(c, i, j)
  IN IVec(Sgn(d) * (Cutoff + 1 - Abs(d)), 0, 0)

\* add_non_bonded_pair_force: the force on p1, its opposite on p2
add_non_bonded_pair_force(c, i, j) ==
  <<Entry(i, PairForce(c, i, j), IZero),
    Entry(j, INeg(PairForce(c, i, j)), IZero)>>

\* the non-bonded callback handed to short_range_loop
NonBondedCallback(c, i, j) == add_non_bonded_pair_force(c, i, j)

\* add_bonded_force of the bond of particle 1 to its partner 2
add_bonded_force(c, i) == <<Entry(1, IVec(0, 1, 0), IZero),
                            Entry(2, IVec(0, -1, 0), IZero)>>

\* the bonded callback handed to short_range_loop
BondedCallback(c, i) ==
  IF "bonded" \in c.feat /\ i = 1 THEN add_bonded_force(c, i) ELSE <<>>

\* the pairs process q calls the non-bonded callback for, in loop order:
\* each local cell with itself and with its upper neighbour cell (which
\* may be a ghost cell), pairs within max_cut only
RECURSIVE PairCallsFrom(_, _, _, _, _)
PairCallsFrom(c, nprocs, q, max_cut, n) ==
  IF n = Cardinality(Cells) * NParts * NParts THEN <<>>
  ELSE LET cell == n \div (NParts * NParts)
           i == ((n \div NParts) % NParts) + 1
           j == (n % NParts) + 1
           ci == CellOf(c.pos[i])
           cj == CellOf(c.pos[j])
           here == /\ i # j
                   /\ ci = cell
                   /\ CellProc(nprocs, cell) = q
                   /\ \/ cj = cell /\ i < j
                      \/ cj = (cell + 1) % Cardinality(Cells)
                   /\ Abs(Vec21(c, i, j)) <= max_cut
       IN (IF here THEN <<(<<i, j>>)>> ELSE <<>>)
            \o PairCallsFrom(c, nprocs, q, max_cut, n + 1)

PairCalls(c, nprocs, q, max_cut) == PairCallsFrom(c, nprocs, q, max_cut, 0)

RECURSIVE Flatten(_)
Flatten(ss) == IF ss = <<>> THEN <<>> ELSE Head(ss) \o Flatten(Tail(ss))

\* the local particles of q in the order of the particle range
RECURSIVE RangeSeqFrom(_, _)
RangeSeqFrom(S, i) ==
  IF i > NParts THEN <<>>
  ELSE (IF i \in S THEN <<i>> ELSE <<>>) \o RangeSeqFrom(S, i + 1)

RangeSeq(S) == RangeSeqFrom(S, 1)

\* short_range_loop on process q: the bonds of the local particles, then
\* the pairs; the calls of the non-bonded callback and what the callbacks
\* add, in order
short_range_loop(c, nprocs, q, max_cut) ==
  LET locals == RangeSeq(local_particles(c, nprocs, q))
      pairs == PairCalls(c, nprocs, q, max_cut)
  IN [calls |-> pairs,
      adds |-> Flatten([k \in 1 .. Len(locals) |-> BondedCallback(c, locals[k])])
                 \o Flatten([k \in 1 .. Len(pairs) |->
                               NonBondedCallback(c, pairs[k][1], pairs[k][2])])]

\* the short-range stage with a cutoff that is too short
ShortRangeStage_ShortCutoff(c, nprocs, q) ==
  short_range_loop(c, nprocs, q, maximal_cutoff(c) - 1)

\* the short-range stage of calculate_forces
ShortRangeStage(c, nprocs, q) ==
  short_range_loop(c, nprocs, q, maximal_cutoff(c))

\* collision_params.mode != CollisionModeType::OFF
collision_mode_on(c) == "collision" \in c.feat

\* the distance below which detect_collision queues a pair
collision_distance == 1

\* detect_collision(p1, p2, dist2): the pair is queued when it is close
detect_collision(c, i, j) ==
  IF Abs(Vec21(c, i, j)) <= collision_distance THEN <<(<<i, j>>)>> ELSE <<>>

\* what the non-bonded callbacks of the pass of process q queue
CollisionsQueued(c, nprocs, q) ==
  LET pairs == ShortRangeStage(c, nprocs, q).calls
  IN Flatten([k \in 1 .. Len(pairs) |->
                IF collision_mode_on(c)
                THEN detect_collision(c, pairs[k][1], pairs[k][2])
                ELSE <<>>])

\* the bond length from which on a bond is flagged for breakage
breakage_length == Cutoff + 1

\* bond_breakage.check_and_handle_breakage within add_bonded_force: the
\* bond of particle 1 to particle 2 is queued when it is stretched
check_and_handle_breakage(c, i) ==
  IF Abs(Vec21(c, 1, 2)) >= breakage_length THEN <<(<<1, 2>>)>> ELSE <<>>

\* what the bonded callbacks of the pass of process q queue
BreakagesQueued(c, nprocs, q) ==
  LET locals == RangeSeq(local_particles(c, nprocs, q))
  IN Flatten([k \in 1 .. Len(locals) |->
                IF "bonded" \in c.feat /\ locals[k] = 1
                THEN check_and_handle_breakage(c, locals[k])
                ELSE <<>>])

(* ------------------------------------------------------------------ *)
(* The other contributors.  Each works on elements (a charge, a        *)
(* constraint, a triangle, a coupling site, a virtual site); an        *)
(* element is evaluated on the process owning its first particle and   *)
(* adds to that process's copies of its particles.                     *)
(* ------------------------------------------------------------------ *)

Element(c, nprocs, q, anchor, es) ==
  IF Owner(c, nprocs, anchor) = q THEN es ELSE <<>>

\* calc_long_range_forces(particles): local particles only
calc_long_range_forces(c, nprocs, q) ==
  IF "long_range" \in c.feat
  THEN Element(c, nprocs, q, 1, <<Entry(1, IVec(1, 0, 0), IZero)>>)
         \o Element(c, nprocs, q, 2, <<Entry(2, IVec(-1, 0, 0), IZero)>>)
  ELSE <<>>

\* Constraints::constraints.add_forces(box_geo, particles, time)
constraints_add_forces(c, nprocs, q) ==
  IF "constraints" \in c.feat
  THEN Element(c, nprocs, q, 2, <<Entry(2, IVec(0, 1, 0), IZero)>>)
  ELSE <<>>

\* max_oif_objects
max_oif_objects(c) == Len(c.oif)

\* the particles of the OIF object i
OifMembers(c, i) ==
  IF ~c.oif[i + 1] THEN {} ELSE IF i = 0 THEN {1, 2} ELSE {3}

\* calc_oif_global(i, box_geo, cell_structure): the local part of the
\* area and the volume of object i
calc_oif_global(c, nprocs, q, i) ==
  LET n == Cardinality(OifMembers(c, i) \cap local_particles(c, nprocs, q))
  IN <<n, n>>

\* add_oif_global_forces(area_volume, i, box_geo, cell_structure)
add_oif_global_forces(c, nprocs, q, i) ==
  IF OifMembers(c, i) = {} THEN <<>>
  ELSE IF i = 0
  THEN Element(c, nprocs, q, 1, <<Entry(1, IVec(1, 0, 0), IZero),
                                  Entry(2, IVec(-1, 0, 0), IZero)>>)
  ELSE Element(c, nprocs, q, 3, <<Entry(3, IVec(0, 0, 1), IZero),
                                  Entry(1, IVec(0, 0, -1), IZero)>>)

\* immersed_boundaries.volume_conservation(cell_structure)
volume_conservation(c, nprocs, q) ==
  IF "ibm" \in c.feat
  THEN Element(c, nprocs, q, 2, <<Entry(2, IVec(0, 0, 1), IZero),
                                  Entry(3, IVec(0, 0, -1), IZero)>>)
  ELSE <<>>

\* lb.is_solver_set()
lb_is_solver_set(c) == "lb" \in c.feat

\* LB::couple_particles(particles, ghost_particles, time_step)
couple_particles(c, nprocs, q) ==
  Element(c, nprocs, q, 3, <<Entry(3, IVec(1, 0, 0), IZero),
                             Entry(1, IVec(1, 0, 0), IZero)>>)

\* propagation->used_propagations & (TRANS_VS_RELATIVE | ROT_VS_RELATIVE)
uses_vs_relative(c) == "vs" \in c.feat

\* vs_relative_back_transfer_forces_and_torques(cell_structure): the
\* virtual site 3 hands a force and a torque to its real particle 1
vs_relative_back_transfer_forces_and_torques(c, nprocs, q) ==
  Element(c, nprocs, q, 3, <<Entry(1, IVec(0, 1, 0), IVec(1, 0, 0))>>)

(* ------------------------------------------------------------------ *)
(* The systems the pipeline is run on                                  *)
(* ------------------------------------------------------------------ *)

\* the positive force cap of the pipeline runs
PipelineCap == 1

\* the systems differ in the externals, the force cap and the optional
\* contributors (with these the OIF objects that are configured)
Profiles ==
  {[ext |-> e, cap |-> k, feat |-> {}, oif |-> <<>>] :
     e \in {0, 1}, k \in {0, PipelineCap}}
  \cup {[ext |-> e, cap |-> 0, feat |-> {}, oif |-> <<>>] : e \in {2, 3}}
  \cup {[ext |-> 0, cap |-> 0, feat |-> {"bonded"}, oif |-> <<>>]}
  \cup {[ext |-> 0, cap |-> 0, feat |-> Features, oif |-> o] :
          o \in {<<TRUE, TRUE>>, <<FALSE, TRUE>>, <<TRUE, FALSE>>}}
  \cup {[ext |-> 1, cap |-> PipelineCap, feat |-> Features,
         oif |-> <<TRUE, TRUE>>]}

\* no two particles at the same place
Positions ==
  {p \in [Parts -> Sites] : \A i, j \in Parts : i # j => p[i] # p[j]}

Configs ==
  {[pos |-> p,
    ext |-> pr.ext,
    force_cap |-> pr.cap,
    feat |-> pr.feat,
    oif |-> pr.oif] : p \in Positions, pr \in Profiles}

\* unordered pairs of particles, the smaller id first
Pairs == {pr \in Parts \X Parts : pr[1] < pr[2]}

PairKey(i, j) == IF i < j THEN <<i, j>> ELSE <<j, i>>

(* ------------------------------------------------------------------ *)
(* The cutoffs and the Verlet criterion handed to short_range_loop     *)
(* ------------------------------------------------------------------ *)

\* the cutoff of a feature that is not active
INACTIVE_CUTOFF == -1

MaxSkin == 2

Max(a, b) == IF a >= b THEN a ELSE b

\* the features and cutoffs of a system v: whether ELECTROSTATICS and
\* DIPOLES are compiled in, the cutoffs of the configured solvers, the
\* interaction range of the short-range potentials, the collision cutoff
VProfiles ==
  {[ELECTROSTATICS |-> FALSE, coulomb |-> Cutoff + 1,
    DIPOLES |-> FALSE, dipoles |-> INACTIVE_CUTOFF,
    interaction_range |-> Cutoff, collision |-> INACTIVE_CUTOFF],
   [ELECTROSTATICS |-> TRUE, coulomb |-> Cutoff + 1,
    DIPOLES |-> FALSE, dipoles |-> Cutoff + 2,
    interaction_range |-> 1, collision |-> INACTIVE_CUTOFF],
   [ELECTROSTATICS |-> TRUE, coulomb |-> INACTIVE_CUTOFF,
    DIPOLES |-> TRUE, dipoles |-> Cutoff,
    interaction_range |-> INACTIVE_CUTOFF, collision |-> INACTIVE_CUTOFF],
   [ELECTROSTATICS |-> FALSE, coulomb |-> Cutoff + 1,
    DIPOLES |-> FALSE, dipoles |-> Cutoff,
    interaction_range |-> INACTIVE_CUTOFF, collision |-> INACTIVE_CUTOFF],
   [ELECTROSTATICS |-> TRUE, coulomb |-> 1,
    DIPOLES |-> TRUE, dipoles |-> 1,
    interaction_range |-> 1, collision |-> Cutoff],
   [ELECTROSTATICS |-> FALSE, coulomb |-> Cutoff,
    DIPOLES |-> TRUE, dipoles |-> INACTIVE_CUTOFF,
    interaction_range |-> 0, collision |-> INACTIVE_CUTOFF]}

\* cell_structure->get_verlet_skin()
get_verlet_skin(v) == v.skin

\* get_interaction_range()
get_interaction_range(v) == v.interaction_range

\* collision_detection_cutoff()
collision_detection_cutoff(v) == v.collision

\* coulomb_cutoff that does not look at ELECTROSTATICS
coulomb_cutoff_Unconditional(v) == v.coulomb

\* auto const coulomb_cutoff
coulomb_cutoff(v) == IF v.ELECTROSTATICS THEN v.coulomb ELSE INACTIVE_CUTOFF

\* auto const dipole_cutoff
dipole_cutoff(v) == IF v.DIPOLES THEN v.dipoles ELSE INACTIVE_CUTOFF

\* the criterion built without the skin
VerletCriterion_NoSkin(v) ==
  [skin |-> 0,
   max_cut |-> get_interaction_range(v),
   coulomb_cut |-> coulomb_cutoff(v),
   dipolar_cut |-> dipole_cutoff(v),
   collision_cut |-> collision_detection_cutoff(v)]

\* VerletCriterion<>{*this, skin, interaction range, coulomb_cutoff,
\* dipole_cutoff, collision_detection_cutoff()}
VerletCriterion(v) ==
  [skin |-> get_verlet_skin(v),
   max_cut |-> get_interaction_range(v),
   coulomb_cut |-> coulomb_cutoff(v),
   dipolar_cut |-> dipole_cutoff(v),
   collision_cut |-> collision_detection_cutoff(v)]

\* the effective cutoff of a criterion: the maximum of its cutoffs
EffectiveCutoff(vc) ==
  Max(Max(vc.max_cut, vc.coulomb_cut), Max(vc.dipolar_cut, vc.collision_cut))

\* the criterion admits a pair at distance dist to the pair list
InList(vc, dist) ==
  /\ EffectiveCutoff(vc) # INACTIVE_CUTOFF
  /\ dist <= EffectiveCutoff(vc) + vc.skin

\* the distance of the particles of the pair pr at the positions pos
PairDist(pos, pr) == Abs(MinImage(pos[pr[1]] - pos[pr[2]]))

\* the pair list built at the positions pos
BuildList(v, pos) == {pr \in Pairs : InList(VerletCriterion(v), PairDist(pos, pr))}

\* a particle has moved more than skin / 2 since the list was built
NeedsRebuild(v, disp) == \E i \in Parts : 2 * Abs(disp[i]) > get_verlet_skin(v)

\* the pairs of the list the non-bonded callback is called for
PassCalls(v, list, pos) ==
  {pr \in list : PairDist(pos, pr) <= EffectiveCutoff(VerletCriterion(v))}

VlIdle == [v |-> <<>>, pos |-> <<>>, disp |-> <<>>, list |-> {},
           calls |-> {}, fresh |-> FALSE, moves |-> 0]

(* ------------------------------------------------------------------ *)
(* calculate_forces: the stages in program order                       *)
(* ------------------------------------------------------------------ *)

\* the stages with the reduction of the ghost forces ahead of the LB
\* coupling and the back-transfer of the virtual sites
StageOrder_ReduceBeforeLb ==
  <<"start", "init_forces", "calc_long_range_forces", "short_range_loop",
    "constraints", "oif", "volume_conservation", "ghosts_reduce_forces",
    "lb_couple", "vs_back_transfer", "comfixed", "force_capping",
    "mark_valid", "done">>

\* the stages with force_capping ahead of comfixed
StageOrder_CapBeforeComfixed ==
  <<"start", "init_forces", "calc_long_range_forces", "short_range_loop",
    "constraints", "oif", "volume_conservation", "lb_couple",
    "vs_back_transfer", "ghosts_reduce_forces", "force_capping", "comfixed",
    "mark_valid", "done">>

\* the stages with the forces marked valid ahead of force_capping
StageOrder_ValidBeforeCapping ==
  <<"start", "init_forces", "calc_long_range_forces", "short_range_loop",
    "constraints", "oif", "volume_conservation", "lb_couple",
    "vs_back_transfer", "ghosts_reduce_forces", "comfixed", "mark_valid",
    "force_capping", "done">>

StageOrder ==
  <<"start", "init_forces", "calc_long_range_forces", "short_range_loop",
    "constraints", "oif", "volume_conservation", "lb_couple",
    "vs_back_transfer", "ghosts_reduce_forces", "comfixed", "force_capping",
    "mark_valid", "done">>

StageIndex(s) == CHOOSE k \in 1 .. Len(StageOrder) : StageOrder[k] = s

\* the stage after stage s
After(s) == StageOrder[StageIndex(s) + 1]

\* the stage a program counter is in (the waits of the collectives are
\* part of their stage)
StageOf(l) ==
  IF l = "oif_all_reduce" THEN "oif"
  ELSE IF l = "comfixed_all_reduce" THEN "comfixed"
  ELSE l

\* process q is past stage s
Past(q, s) == StageIndex(StageOf(pc[q])) > StageIndex(s)

NoSnapshot == <<>>

\* what an earlier step has left: forces and torques in the accumulators
\* of the local particles and of the ghosts, events in the queues
StaleForce == ParticleForce(VInt(1, 0, 1), VInt(0, 1, 0))

StaleCollision == <<1, 3>>

StaleBreakage == <<1, 2>>

GbIdle == [pc |-> "idle"]

CapIdle == [F |-> <<>>, cap |-> FZero, n |-> 0, hist |-> <<>>]

Init ==
  /\ cfg \in Configs
  /\ \E stale \in BOOLEAN :
       /\ f = [q \in Procs |-> [i \in Parts |->
                 IF stale THEN StaleForce ELSE PFZero]]
       /\ collision_queue = [q \in Procs |->
                              IF stale THEN <<StaleCollision>> ELSE <<>>]
       /\ breakage_queue = [q \in Procs |->
                             IF stale THEN <<StaleBreakage>> ELSE <<>>]
  /\ gb = GbIdle
  /\ pc = [q \in Procs |-> "start"]
  /\ oif_i = [q \in Procs |-> 0]
  /\ dep = [q \in Procs |-> <<>>]
  /\ recalc_forces = [q \in Procs |-> TRUE]
  /\ nb_calls = [pr \in Pairs |-> 0]
  /\ ledger = [i \in Parts |-> IZero]
  /\ inexact = FALSE
  /\ pre_reduce = NoSnapshot
  /\ pre_cap = [q \in Procs |-> NoSnapshot]
  /\ capst = CapIdle
  /\ vl = VlIdle

Goto(q, l) == pc' = [pc EXCEPT ![q] = l]

\* a stage of process q that adds the entries es to q's accumulators
Contribute(q, stage, es) ==
  /\ pc[q] = stage
  /\ f' = [f EXCEPT ![q] = Apply(f[q], es)]
  /\ ledger' = Book(ledger, es)
  /\ inexact' = (inexact \/ ApplyRounds(f[q], es))
  /\ Goto(q, After(stage))

\* prepare_local_collision_queue(): local_collision_queue.clear()
prepare_local_collision_queue(queue) == <<>>

\* bond_breakage->clear_queue()
clear_queue(queue) == <<>>

\* the start of the step without the clearing of the queues
Start_KeepQueues(q) ==
  /\ pc[q] = "start"
  /\ Goto(q, After("start"))
  /\ UNCHANGED <<cfg, f, oif_i, dep, recalc_forces, nb_calls, ledger,
                 inexact, pre_reduce, pre_cap, capst, vl, collision_queue,
                 breakage_queue, gb>>

\* prepare_local_collision_queue(); bond_breakage->clear_queue()
Start(q) ==
  /\ pc[q] = "start"
  /\ collision_queue' =
       [collision_queue EXCEPT ![q] = prepare_local_collision_queue(@)]
  /\ breakage_queue' = [breakage_queue EXCEPT ![q] = clear_queue(@)]
  /\ Goto(q, After("start"))
  /\ UNCHANGED <<cfg, f, oif_i, dep, recalc_forces, nb_calls, ledger,
                 inexact, pre_reduce, pre_cap, capst, vl, gb>>

\* init_forces with the ghosts initialised like the local particles
InitForces_GhostsAsLocal(q) ==
  /\ pc[q] = "init_forces"
  /\ f' = [f EXCEPT ![q] = init_forces(f[q], cfg, Parts, {})]
  /\ ledger' = [i \in Parts |->
                  IF Owner(cfg, 2, i) = q
                  THEN IAdd(ledger[i], ExactExternal(cfg, i))
                  ELSE ledger[i]]
  /\ Goto(q, After("init_forces"))
  /\ UNCHANGED <<cfg, oif_i, dep, recalc_forces, nb_calls, inexact,
                 pre_reduce, pre_cap, capst, vl,
                 collision_queue, breakage_queue, gb>>

\* init_forces(particles, ghost_particles)
InitForces(q) ==
  /\ pc[q] = "init_forces"
  /\ f' = [f EXCEPT ![q] = init_forces(f[q], cfg, local_particles(cfg, 2, q),
                                       ghost_particles(cfg, 2, q))]
  /\ ledger' = [i \in Parts |->
                  IF Owner(cfg, 2, i) = q
                  THEN IAdd(ledger[i], ExactExternal(cfg, i))
                  ELSE ledger[i]]
  /\ Goto(q, After("init_forces"))
  /\ UNCHANGED <<cfg, oif_i, dep, recalc_forces, nb_calls, inexact,
                 pre_reduce, pre_cap, capst, vl,
                 collision_queue, breakage_queue, gb>>

\* calc_long_range_forces(particles)
LongRange(q) ==
  /\ Contribute(q, "calc_long_range_forces", calc_long_range_forces(cfg, 2, q))
  /\ UNCHANGED <<cfg, oif_i, dep, recalc_forces, nb_calls, pre_reduce,
                 pre_cap, capst, vl,
                 collision_queue, breakage_queue, gb>>

\* short_range_loop(bonded callback, non-bonded callback, ...)
ShortRange(q) ==
  /\ pc[q] = "short_range_loop"
  /\ \E sr \in {ShortRangeStage(cfg, 2, q)} :
       /\ Contribute(q, "short_range_loop", sr.adds)
       /\ nb_calls' =
            [pr \in Pairs |->
               nb_calls[pr] + Cardinality({k \in 1 .. Len(sr.calls) :
                                PairKey(sr.calls[k][1], sr.calls[k][2]) = pr})]
  /\ collision_queue' =
       [collision_queue EXCEPT ![q] = @ \o CollisionsQueued(cfg, 2, q)]
  /\ breakage_queue' =
       [breakage_queue EXCEPT ![q] = @ \o BreakagesQueued(cfg, 2, q)]
  /\ UNCHANGED <<cfg, oif_i, dep, recalc_forces, pre_reduce, pre_cap, capst, vl,
                 gb>>

\* Constraints::constraints.add_forces(box_geo, particles, sim_time)
Constraints(q) ==
  /\ Contribute(q, "constraints", constraints_add_forces(cfg, 2, q))
  /\ UNCHANGED <<cfg, oif_i, dep, recalc_forces, nb_calls, pre_reduce,
                 pre_cap, capst, vl,
                 collision_queue, breakage_queue, gb>>

\* boost::mpi::all_reduce: process q, having handed in its part as its
\* k-th collective, has the parts of all processes
AllReduceReady(q) == \A r \in Procs : Len(dep[r]) >= Len(dep[q])

\* the parts of the collective q is in, by rank
AllReduceParts(q) == [r \in Procs |-> dep[r][Len(dep[q])]]

\* a value of the area or the volume below the noise floor 1e-100 (the
\* areas and volumes of the model are whole numbers)
BelowNoiseFloor(x) == Abs(x) < 1

\* the loop over the OIF objects: its head, i < max_oif_objects, and the
\* start of the all_reduce of calc_oif_global(i)
OifLoop(q) ==
  /\ pc[q] = "oif"
  /\ IF oif_i[q] < max_oif_objects(cfg)
     THEN /\ dep' = [dep EXCEPT ![q] =
                       Append(@, calc_oif_global(cfg, 2, q, oif_i[q]))]
          /\ Goto(q, "oif_all_reduce")
     ELSE /\ dep' = dep
          /\ Goto(q, After("oif"))
  /\ UNCHANGED <<cfg, f, oif_i, recalc_forces, nb_calls, ledger, inexact,
                 pre_reduce, pre_cap, capst, vl,
                 collision_queue, breakage_queue, gb>>

\* the loop with the exit decided on the process's own part of the area
\* and the volume instead of the all-reduced value
OifReduced_LocalDecision(q) ==
  /\ pc[q] = "oif_all_reduce"
  /\ AllReduceReady(q)
  /\ LET area_volume == AllReduceParts(q)[q]
         oif_part_area == Abs(area_volume[1])
         oif_part_vol == Abs(area_volume[2])
     IN IF BelowNoiseFloor(oif_part_area) /\ BelowNoiseFloor(oif_part_vol)
        THEN /\ Goto(q, After("oif"))
             /\ UNCHANGED <<f, ledger, inexact, oif_i>>
        ELSE LET es == add_oif_global_forces(cfg, 2, q, oif_i[q])
             IN /\ f' = [f EXCEPT ![q] = Apply(f[q], es)]
                /\ ledger' = Book(ledger, es)
                /\ inexact' = (inexact \/ ApplyRounds(f[q], es))
                /\ oif_i' = [oif_i EXCEPT ![q] = @ + 1]
                /\ Goto(q, "oif")
  /\ UNCHANGED <<cfg, dep, recalc_forces, nb_calls, pre_reduce, pre_cap,
                 capst, vl, collision_queue, breakage_queue, gb>>

\* the all_reduce returns: break, or add_oif_global_forces and i++
OifReduced(q) ==
  /\ pc[q] = "oif_all_reduce"
  /\ AllReduceReady(q)
  /\ LET parts == AllReduceParts(q)
         area_volume == <<parts[0][1] + parts[1][1], parts[0][2] + parts[1][2]>>
         oif_part_area == Abs(area_volume[1])
         oif_part_vol == Abs(area_volume[2])
     IN IF BelowNoiseFloor(oif_part_area) /\ BelowNoiseFloor(oif_part_vol)
        THEN /\ Goto(q, After("oif"))
             /\ UNCHANGED <<f, ledger, inexact, oif_i>>
        ELSE LET es == add_oif_global_forces(cfg, 2, q, oif_i[q])
             IN /\ f' = [f EXCEPT ![q] = Apply(f[q], es)]
                /\ ledger' = Book(ledger, es)
                /\ inexact' = (inexact \/ ApplyRounds(f[q], es))
                /\ oif_i' = [oif_i EXCEPT ![q] = @ + 1]
                /\ Goto(q, "oif")
  /\ UNCHANGED <<cfg, dep, recalc_forces, nb_calls, pre_reduce, pre_cap,
                 capst, vl, collision_queue, breakage_queue, gb>>

\* immersed_boundaries.volume_conservation(cell_structure)
VolumeConservation(q) ==
  /\ Contribute(q, "volume_conservation", volume_conservation(cfg, 2, q))
  /\ UNCHANGED <<cfg, oif_i, dep, recalc_forces, nb_calls, pre_reduce,
                 pre_cap, capst, vl,
                 collision_queue, breakage_queue, gb>>

\* if (lb.is_solver_set()) LB::couple_particles(...)
LbCouple(q) ==
  /\ Contribute(q, "lb_couple",
                IF lb_is_solver_set(cfg) THEN couple_particles(cfg, 2, q)
                ELSE <<>>)
  /\ UNCHANGED <<cfg, oif_i, dep, recalc_forces, nb_calls, pre_reduce,
                 pre_cap, capst, vl,
                 collision_queue, breakage_queue, gb>>

\* if (used_propagations & ...) vs_relative_back_transfer_forces_and_torques
VsBackTransfer(q) ==
  /\ Contribute(q, "vs_back_transfer",
                IF uses_vs_relative(cfg)
                THEN vs_relative_back_transfer_forces_and_torques(cfg, 2, q)
                ELSE <<>>)
  /\ UNCHANGED <<cfg, oif_i, dep, recalc_forces, nb_calls, pre_reduce,
                 pre_cap, capst, vl,
                 collision_queue, breakage_queue, gb>>

\* the ParticleForce a + b
PFAdd(a, b) == ParticleForce(VAdd(a.f, b.f), VAdd(a.torque, b.torque))

\* the accumulators after cell_structure->ghosts_reduce_forces(): every
\* ghost's force and torque added to the copy of its owner, the ghost's
\* accumulator zero
GhostsReduced(c, G) ==
  [q \in Procs |->
     [i \in Parts |->
        IF Owner(c, 2, i) = q
        THEN PFAdd(G[q][i], G[1 - q][i])
        ELSE PFZero]]

\* the collective without the communication: every copy keeps what it has
GhostsReduceForces_Skipped ==
  /\ \A q \in Procs : pc[q] = "ghosts_reduce_forces"
  /\ f' = f
  /\ pre_reduce' = f
  /\ inexact' = inexact
  /\ pc' = [q \in Procs |-> "comfixed"]
  /\ UNCHANGED <<cfg, oif_i, dep, recalc_forces, nb_calls, ledger, pre_cap,
                 capst, vl, collision_queue, breakage_queue, gb>>

\* the reduction started by the first process that gets to it
GhostsReduceForces_NoBarrier ==
  /\ \E q \in Procs : pc[q] = "ghosts_reduce_forces"
  /\ f' = GhostsReduced(cfg, f)
  /\ pre_reduce' = f
  /\ inexact' = inexact
  /\ pc' = [q \in Procs |->
              IF pc[q] = "ghosts_reduce_forces" THEN "comfixed" ELSE pc[q]]
  /\ UNCHANGED <<cfg, oif_i, dep, recalc_forces, nb_calls, ledger, pre_cap,
                 capst, vl, collision_queue, breakage_queue, gb>>

\* cell_structure->ghosts_reduce_forces(): the collective of all processes
GhostsReduceForces ==
  /\ \A q \in Procs : pc[q] = "ghosts_reduce_forces"
  /\ f' = GhostsReduced(cfg, f)
  /\ pre_reduce' = f
  /\ inexact' = (inexact \/ \E i \in Parts :
                    \/ ~VAddExact(f[0][i].f, f[1][i].f)
                    \/ ~VAddExact(f[0][i].torque, f[1][i].torque))
  /\ pc' = [q \in Procs |-> After("ghosts_reduce_forces")]
  /\ UNCHANGED <<cfg, oif_i, dep, recalc_forces, nb_calls, ledger, pre_cap,
                 capst, vl, collision_queue, breakage_queue, gb>>

\* the sum of the forces of the particles S of F, in range order
RECURSIVE SumForces(_, _)
SumForces(F, ps) ==
  IF ps = <<>> THEN VZero ELSE VAdd(F[Head(ps)].f, SumForces(F, Tail(ps)))

\* whether that sum rounds
RECURSIVE SumRounds(_, _)
SumRounds(F, ps) ==
  IF ps = <<>> THEN FALSE
  ELSE \/ ~VAddExact(F[Head(ps)].f, SumForces(F, Tail(ps)))
       \/ SumRounds(F, Tail(ps))

\* comfixed->apply(particles): the start of the all_reduce of the local
\* force of the fixed type (all particles are of it)
ComFixed(q) ==
  /\ pc[q] = "comfixed"
  /\ IF "comfixed" \in cfg.feat
     THEN /\ dep' = [dep EXCEPT ![q] =
                       Append(@, SumForces(f[q],
                                   RangeSeq(local_particles(cfg, 2, q))))]
          /\ inexact' =
               (inexact \/ SumRounds(f[q], RangeSeq(local_particles(cfg, 2, q))))
          /\ Goto(q, "comfixed_all_reduce")
     ELSE /\ dep' = dep
          /\ inexact' = inexact
          /\ Goto(q, After("comfixed"))
  /\ UNCHANGED <<cfg, f, oif_i, recalc_forces, nb_calls, ledger,
                 pre_reduce, pre_cap, capst, vl,
                 collision_queue, breakage_queue, gb>>

\* the force of a particle of mass 1 after comfixed: its share of the
\* total force of the NParts particles of the type taken off
ComFixedForce(fv, total) ==
  VSub(fv, VScale(total, FDiv(FInt(1), FInt(NParts))))

\* comfixed->apply(particles): the all_reduce returns
ComFixedApply(q) ==
  /\ pc[q] = "comfixed_all_reduce"
  /\ AllReduceReady(q)
  /\ LET parts == AllReduceParts(q)
         total == VAdd(parts[0], parts[1])
     IN /\ f' = [f EXCEPT ![q] =
                   [i \in Parts |->
                      IF i \in local_particles(cfg, 2, q)
                      THEN [f[q][i] EXCEPT !.f = ComFixedForce(@, total)]
                      ELSE f[q][i]]]
        /\ inexact' = (inexact \/ ~VAddExact(parts[0], parts[1]))
  /\ Goto(q, After("comfixed"))
  /\ UNCHANGED <<cfg, oif_i, dep, recalc_forces, nb_calls, ledger,
                 pre_reduce, pre_cap, capst, vl,
                 collision_queue, breakage_queue, gb>>

\* force_capping(particles, force_cap)
ForceCapping(q) ==
  /\ pc[q] = "force_capping"
  /\ f' = [f EXCEPT ![q] = force_capping(f[q], local_particles(cfg, 2, q),
                                         FInt(cfg.force_cap))]
  /\ pre_cap' = [pre_cap EXCEPT ![q] = f[q]]
  /\ Goto(q, After("force_capping"))
  /\ UNCHANGED <<cfg, oif_i, dep, recalc_forces, nb_calls, ledger, inexact,
                 pre_reduce, capst, vl, collision_queue, breakage_queue, gb>>

\* propagation->recalc_forces = false
MarkValid(q) ==
  /\ pc[q] = "mark_valid"
  /\ recalc_forces' = [recalc_forces EXCEPT ![q] = FALSE]
  /\ Goto(q, After("mark_valid"))
  /\ UNCHANGED <<cfg, f, oif_i, dep, nb_calls, ledger, inexact, pre_reduce,
                 pre_cap, capst, vl,
                 collision_queue, breakage_queue, gb>>

Next ==
  \/ \E q \in Procs : Start(q)
  \/ \E q \in Procs : InitForces(q)
  \/ \E q \in Procs : LongRange(q)
  \/ \E q \in Procs : ShortRange(q)
  \/ \E q \in Procs : Constraints(q)
  \/ \E q \in Procs : OifLoop(q)
  \/ \E q \in Procs : OifReduced(q)
  \/ \E q \in Procs : VolumeConservation(q)
  \/ \E q \in Procs : LbCouple(q)
  \/ \E q \in Procs : VsBackTransfer(q)
  \/ GhostsReduceForces
  \/ \E q \in Procs : ComFixed(q)
  \/ \E q \in Procs : ComFixedApply(q)
  \/ \E q \in Procs : ForceCapping(q)
  \/ \E q \in Procs : MarkValid(q)

Spec == Init /\ [][Next]_vars

(* ------------------------------------------------------------------ *)
(* calculate_forces on a single process: no decomposition, no ghosts   *)
(* ------------------------------------------------------------------ *)

\* a stage adding the entries es; rounds records a rounded accumulation
SerialStage(S, es) ==
  [F |-> Apply(S.F, es), rounds |-> (S.rounds \/ ApplyRounds(S.F, es))]

\* the loop over the OIF objects from object i on
RECURSIVE SerialOif(_, _, _)
SerialOif(c, S, i) ==
  IF i >= max_oif_objects(c) THEN S
  ELSE LET area_volume == calc_oif_global(c, 1, 0, i)
       IN IF /\ BelowNoiseFloor(Abs(area_volume[1]))
             /\ BelowNoiseFloor(Abs(area_volume[2]))
          THEN S
          ELSE SerialOif(c, SerialStage(S, add_oif_global_forces(c, 1, 0, i)),
                         i + 1)

\* the accumulators before comfixed->apply
SerialContributions(c) ==
  LET s0 == [F |-> init_forces([i \in Parts |-> PFZero], c, Parts, {}),
             rounds |-> FALSE]
      s1 == SerialStage(s0, calc_long_range_forces(c, 1, 0))
      s2 == SerialStage(s1, ShortRangeStage(c, 1, 0).adds)
      s3 == SerialStage(s2, constraints_add_forces(c, 1, 0))
      s4 == SerialOif(c, s3, 0)
      s5 == SerialStage(s4, volume_conservation(c, 1, 0))
      s6 == IF lb_is_solver_set(c)
            THEN SerialStage(s5, couple_particles(c, 1, 0)) ELSE s5
  IN IF uses_vs_relative(c)
     THEN SerialStage(s6, vs_relative_back_transfer_forces_and_torques(c, 1, 0))
     ELSE s6

\* calculate_forces of the system c on one process
SerialRun(c) ==
  LET s7 == SerialContributions(c)
      all == RangeSeq(Parts)
      total == SumForces(s7.F, all)
      s8 == IF "comfixed" \in c.feat
            THEN [F |-> [i \in Parts |->
                           [s7.F[i] EXCEPT !.f = ComFixedForce(@, total)]],
                  rounds |-> (s7.rounds \/ SumRounds(s7.F, all))]
            ELSE s7
  IN [F |-> force_capping(s8.F, Parts, FInt(c.force_cap)),
      rounds |-> s8.rounds]

(* ------------------------------------------------------------------ *)
(* force_capping on its own: a range of two particles and a particle   *)
(* outside the range, capped twice                                     *)
(* ------------------------------------------------------------------ *)

CapVecs == {VInt(x, y, z) : x, y \in -CapRange .. CapRange, z \in {0, 1}}

CapParticles == {1, 2}

\* a force (41/16, 3/2, 3/8) of squared length 2293/256, below 9, whose
\* squared length as norm2() computes it in Precision 6 is 37/4, above 9
CapEdge == <<FRound(41, -4), FRound(3, -1), FRound(3, -3)>>

CapInit ==
  /\ capst \in
       {[F |-> <<ParticleForce(v, VInt(0, 0, 5)),
                 ParticleForce(w, VZero),
                 ParticleForce(VInt(CapRange, CapRange, CapRange), VZero)>>,
         cap |-> FInt(k), n |-> 0, hist |-> <<>>] :
          v \in CapVecs,
          w \in {VZero, VInt(CapRange, 0, 1), CapEdge},
          k \in -1 .. MaxCap}
  /\ cfg = CHOOSE c \in Configs : TRUE
  /\ f = [q \in Procs |-> [i \in Parts |-> PFZero]]
  /\ pc = [q \in Procs |-> "done"]
  /\ oif_i = [q \in Procs |-> 0]
  /\ dep = [q \in Procs |-> <<>>]
  /\ recalc_forces = [q \in Procs |-> FALSE]
  /\ nb_calls = [pr \in Pairs |-> 0]
  /\ ledger = [i \in Parts |-> IZero]
  /\ inexact = FALSE
  /\ pre_reduce = NoSnapshot
  /\ pre_cap = [q \in Procs |-> NoSnapshot]
  /\ vl = VlIdle
  /\ collision_queue = [q \in Procs |-> <<>>]
  /\ breakage_queue = [q \in Procs |-> <<>>]
  /\ gb = GbIdle

\* force_capping(particles, force_cap), once more
CapApply ==
  /\ capst.n < 2
  /\ capst' = [capst EXCEPT
                 !.F = force_capping(capst.F, CapParticles, capst.cap),
                 !.n = @ + 1,
                 !.hist = Append(@, capst.F)]
  /\ UNCHANGED <<cfg, f, pc, oif_i, dep, recalc_forces, nb_calls, ledger,
                 inexact, pre_reduce, pre_cap, vl,
                 collision_queue, breakage_queue, gb>>

CapNext == CapApply

SpecCap == CapInit /\ [][CapNext]_vars

(* ------------------------------------------------------------------ *)
(* The pair list over the steps: particles move, the short-range pass   *)
(* rebuilds the list when the criterion asks for it                    *)
(* ------------------------------------------------------------------ *)

MaxMoves == 2

\* the system of the profile pr with the skin s
VSystem(pr, s) ==
  [ELECTROSTATICS |-> pr.ELECTROSTATICS, coulomb |-> pr.coulomb,
   DIPOLES |-> pr.DIPOLES, dipoles |-> pr.dipoles,
   interaction_range |-> pr.interaction_range,
   collision |-> pr.collision, skin |-> s]

\* the list has been built at the initial positions
VerletInit ==
  /\ vl \in
       {[v |-> VSystem(pr, s), pos |-> p, disp |-> [i \in Parts |-> 0],
         list |-> BuildList(VSystem(pr, s), p), calls |-> {},
         fresh |-> FALSE, moves |-> 0] :
          pr \in VProfiles, s \in 0 .. MaxSkin,
          p \in {x \in Positions : x[1] = 0}}
  /\ cfg = CHOOSE c \in Configs : TRUE
  /\ f = [q \in Procs |-> [i \in Parts |-> PFZero]]
  /\ pc = [q \in Procs |-> "done"]
  /\ oif_i = [q \in Procs |-> 0]
  /\ dep = [q \in Procs |-> <<>>]
  /\ recalc_forces = [q \in Procs |-> FALSE]
  /\ nb_calls = [pr \in Pairs |-> 0]
  /\ ledger = [i \in Parts |-> IZero]
  /\ inexact = FALSE
  /\ pre_reduce = NoSnapshot
  /\ pre_cap = [q \in Procs |-> NoSnapshot]
  /\ capst = CapIdle
  /\ collision_queue = [q \in Procs |-> <<>>]
  /\ breakage_queue = [q \in Procs |-> <<>>]
  /\ gb = GbIdle

\* the integrator moves particle i by d
VerletMove ==
  /\ vl.moves < MaxMoves
  /\ \E i \in Parts, d \in {-1, 1} :
       vl' = [vl EXCEPT !.pos[i] = (@ + d) % BoxL,
                        !.disp[i] = @ + d,
                        !.fresh = FALSE,
                        !.moves = @ + 1]
  /\ UNCHANGED <<cfg, f, pc, oif_i, dep, recalc_forces, nb_calls, ledger,
                 inexact, pre_reduce, pre_cap, capst,
                 collision_queue, breakage_queue, gb>>

\* the short-range pass: the list is rebuilt when the criterion asks for
\* it, then the callback is called for the pairs of the list
VerletPass ==
  /\ ~vl.fresh
  /\ \E rebuild \in {NeedsRebuild(vl.v, vl.disp)} :
       \E list \in {IF rebuild THEN BuildList(vl.v, vl.pos) ELSE vl.list} :
         vl' = [vl EXCEPT
                  !.list = list,
                  !.disp = IF rebuild THEN [i \in Parts |-> 0] ELSE @,
                  !.calls = PassCalls(vl.v, list, vl.pos),
                  !.fresh = TRUE]
  /\ UNCHANGED <<cfg, f, pc, oif_i, dep, recalc_forces, nb_calls, ledger,
                 inexact, pre_reduce, pre_cap, capst,
                 collision_queue, breakage_queue, gb>>

VerletNext == VerletMove \/ VerletPass

SpecVerlet == VerletInit /\ [][VerletNext]_vars

(* ------------------------------------------------------------------ *)
(* Properties of force_capping                                         *)
(* ------------------------------------------------------------------ *)

\* a * b and a - b without rounding
ExactMul(a, b) == Norm(a[1] * b[1], a[2] + b[2])

ExactSub(a, b) ==
  LET e == Min(a[2], b[2])
  IN Norm(a[1] * (2 ^ (a[2] - e)) - b[1] * (2 ^ (b[2] - e)), e)

\* the squared length of v is exactly that of the scalar c
ExactNorm2Is(v, c) ==
  LET e == Min(Min(v[1][2], v[2][2]), Min(v[3][2], c[2]))
      sq(a) == (a[1] * (2 ^ (a[2] - e))) * (a[1] * (2 ^ (a[2] - e)))
  IN sq(v[1]) + sq(v[2]) + sq(v[3]) = sq(c)

\* u and v are exactly parallel
Parallel(u, v) ==
  /\ ExactMul(u[1], v[2]) = ExactMul(u[2], v[1])
  /\ ExactMul(u[1], v[3]) = ExactMul(u[3], v[1])
  /\ ExactMul(u[2], v[3]) = ExactMul(u[3], v[2])

SameSigns(u, v) == \A k \in 1 .. 3 : FSign(u[k]) = FSign(v[k])

\* no component of v is larger in magnitude than that of u
NoGrowth(u, v) == \A k \in 1 .. 3 : FLeq(FAbs(v[k]), FAbs(u[k]))

\* the components of v are ordered by magnitude as those of u
OrderKept(u, v) ==
  \A k, l \in 1 .. 3 :
    FLeq(FAbs(u[k]), FAbs(u[l])) => FLeq(FAbs(v[k]), FAbs(v[l]))

\* the squared length of v, as norm2() computes it, is force_cap squared
\* up to a relative 2^(4 - Precision)
NearCap(v, force_cap) ==
  LET cap_sq == ExactMul(force_cap, force_cap)
      tol == <<cap_sq[1], cap_sq[2] + 4 - Precision>>
  IN FLeq(FAbs(ExactSub(norm2(v), cap_sq)), tol)

\* force_capping finds the force fv above the cap
AboveCap(fv, force_cap) ==
  /\ FLess(FZero, force_cap)
  /\ FLess(FMul(force_cap, force_cap), norm2(fv))

\* the force of particle i before the first capping, after it, and after
\* the second
CapPre(i) == capst.hist[1][i].f

CapOnce(i) == IF capst.n = 1 THEN capst.F[i].f ELSE capst.hist[2][i].f

CapTwice(i) == capst.F[i].f

C10_Idempotent ==
  capst.n = 2 => \A i \in DOMAIN capst.F : CapTwice(i) = CapOnce(i)

\* C10, amended: capping a second time changes no force whose squared
\* magnitude, as computed, is at most force_cap squared; a capped force
\* that rounding left above is rescaled once more, as in C9
C10_IdempotentUpToRounding ==
  capst.n = 2 =>
    \A i \in DOMAIN capst.F :
      \/ capst.F[i] = capst.hist[2][i]
      \/ /\ i \in CapParticles
         /\ AboveCap(CapPre(i), capst.cap)
         /\ AboveCap(CapOnce(i), capst.cap)
         /\ capst.F[i].torque = capst.hist[2][i].torque
         /\ SameSigns(CapOnce(i), CapTwice(i))
         /\ NoGrowth(CapOnce(i), CapTwice(i))
         /\ NearCap(CapTwice(i), capst.cap)

\* a capped force has been capped a second time
C10_Witness ==
  /\ capst.n = 2
  /\ \E i \in CapParticles :
       /\ AboveCap(CapPre(i), capst.cap)
       /\ CapOnce(i) # CapPre(i)
       /\ CapTwice(i) = CapOnce(i)

(* ------------------------------------------------------------------ *)
(* Properties of calculate_forces                                      *)
(* ------------------------------------------------------------------ *)

AllDone == \A q \in Procs : pc[q] = "done"

\* ghosts_reduce_forces has run
Reduced == pre_reduce # NoSnapshot

\* the accumulator of the authoritative copy of particle i
OwnerForce(i) == f[Owner(cfg, 2, i)][i]

\* the particles of the pair pr are within the interaction cutoff
WithinCutoff(c, pr) == Abs(Vec21(c, pr[1], pr[2])) <= Cutoff

\* the pair forces on particle i of the partners j, j + 1, ... within the
\* cutoff, each pair once
RECURSIVE PairSum(_, _, _)
PairSum(c, i, j) ==
  IF j > NParts THEN IZero
  ELSE IAdd(IF j # i /\ WithinCutoff(c, PairKey(i, j))
            THEN PairForce(c, i, j) ELSE IZero,
            PairSum(c, i, j + 1))

\* what the OIF objects i, i + 1, ... add, the loop ending at the first
\* object without area and volume
RECURSIVE OifEntries(_, _)
OifEntries(c, i) ==
  IF i >= max_oif_objects(c) \/ OifMembers(c, i) = {} THEN <<>>
  ELSE add_oif_global_forces(c, 1, 0, i) \o OifEntries(c, i + 1)

\* what the contributors other than the pair forces add, over the system
OtherEntries(c) ==
  calc_long_range_forces(c, 1, 0)
    \o Flatten([i \in 1 .. NParts |-> BondedCallback(c, i)])
    \o constraints_add_forces(c, 1, 0)
    \o OifEntries(c, 0)
    \o volume_conservation(c, 1, 0)
    \o (IF lb_is_solver_set(c) THEN couple_particles(c, 1, 0) ELSE <<>>)
    \o (IF uses_vs_relative(c)
        THEN vs_relative_back_transfer_forces_and_torques(c, 1, 0) ELSE <<>>)

\* the exact sum of the contributions to particle i
ExpectedForce(c, i) ==
  IAdd(IAdd(ExactExternal(c, i), PairSum(c, i, 1)),
       Book([k \in Parts |-> IZero], OtherEntries(c))[i])

\* neither comfixed nor force_capping has changed the accumulator of the
\* authoritative copy of particle i
Unadjusted(i) ==
  LET q == Owner(cfg, 2, i)
  IN /\ Reduced
     /\ \/ "comfixed" \notin cfg.feat
        \/ pc[q] \in {"comfixed", "comfixed_all_reduce"}
     /\ \/ ~Past(q, "force_capping")
        \/ pre_cap[q][i] = f[q][i]

\* some ghost copy held a contribution when the reduction started
GhostContributed ==
  /\ Reduced
  /\ \E i \in Parts : pre_reduce[1 - Owner(cfg, 2, i)][i] # PFZero

\* C1 as stated: when calculate_forces has completed on all processes, the
\* force of every authoritative particle is the sum of the contributions
\* to it, each pair within the cutoff counted once
C1_SumOfContributions ==
  AllDone =>
    /\ \A i \in Parts : OwnerForce(i).f = VOfI(ExpectedForce(cfg, i))
    /\ \A pr \in Pairs : WithinCutoff(cfg, pr) => nb_calls[pr] = 1

\* C1, amended: once the ghost forces are reduced, the force of every
\* authoritative particle that comfixed and force_capping have not changed
\* is the sum of the contributions to it, each pair within the cutoff
\* counted once (exactly, when no accumulation has rounded)
C1_SumUntilAdjusted ==
  Reduced =>
    /\ \A i \in Parts :
         (Unadjusted(i) /\ ~inexact) =>
           OwnerForce(i).f = VOfI(ExpectedForce(cfg, i))
    /\ \A pr \in Pairs :
         nb_calls[pr] = IF WithinCutoff(cfg, pr) THEN 1 ELSE 0

\* a completed step whose forces are sums that a ghost copy contributed to
C1_Witness ==
  /\ AllDone
  /\ ~inexact
  /\ GhostContributed
  /\ \A i \in Parts : Unadjusted(i) /\ OwnerForce(i).f # VZero
  /\ \E i \in Parts : ExactExternal(cfg, i) # IZero

\* C2: the ghost forces are reduced after every stage that writes to a
\* ghost and before comfixed and force_capping; from the reduction on the
\* accumulator of every ghost stays zero, and what the stages added to any
\* copy of a particle is in its authoritative accumulator
C2_ReduceAfterGhostWriters ==
  \A q \in Procs :
    /\ Past(q, "ghosts_reduce_forces") => Reduced
    /\ Reduced =>
         /\ Past(q, "vs_back_transfer")
         /\ \A i \in ghost_particles(cfg, 2, q) : f[q][i] = PFZero
         /\ \A i \in local_particles(cfg, 2, q) :
              (Unadjusted(i) /\ ~inexact) => f[q][i].f = VOfI(ledger[i])

\* a completed step with the LB coupling and the virtual sites in which a
\* ghost copy held a contribution
C2_Witness ==
  /\ AllDone
  /\ GhostContributed
  /\ lb_is_solver_set(cfg)
  /\ uses_vs_relative(cfg)
  /\ \E i \in Parts : pre_reduce[1 - Owner(cfg, 2, i)][i].torque # VZero
  /\ \A q \in Procs : \A i \in ghost_particles(cfg, 2, q) : f[q][i] = PFZero

C4_SameAsSerial ==
  AllDone => \A i \in Parts : OwnerForce(i) = SerialRun(cfg).F[i]

\* C4, amended: they are those of the run on one process when no
\* accumulation of either run has rounded
C4_SameAsSerialWhenExact ==
  (AllDone /\ ~inexact /\ ~SerialRun(cfg).rounds) =>
    \A i \in Parts : OwnerForce(i) = SerialRun(cfg).F[i]

\* a completed exact step in which a particle took contributions on both
\* processes
C4_Witness ==
  /\ AllDone
  /\ ~inexact
  /\ ~SerialRun(cfg).rounds
  /\ \E i \in Parts :
       /\ pre_reduce[0][i].f # VZero
       /\ pre_reduce[1][i].f # VZero
       /\ OwnerForce(i) = SerialRun(cfg).F[i]
       /\ OwnerForce(i).f # VZero

\* C5: the non-bonded callback is never called twice for a pair, and when
\* the short-range pass is over on all processes it has been called once
\* for every pair within the cutoff
C5_CallbackOnce ==
  \A pr \in Pairs :
    /\ nb_calls[pr] <= 1
    /\ ((\A q \in Procs : Past(q, "short_range_loop")) /\ WithinCutoff(cfg, pr))
         => nb_calls[pr] = 1

\* the pass is over and has met a pair within the cutoff whose particles
\* belong to different processes
C5_Witness ==
  /\ \A q \in Procs : Past(q, "short_range_loop")
  /\ \E pr \in Pairs :
       /\ WithinCutoff(cfg, pr)
       /\ Owner(cfg, 2, pr[1]) # Owner(cfg, 2, pr[2])
       /\ nb_calls[pr] = 1
  /\ \E pr \in Pairs : ~WithinCutoff(cfg, pr) /\ nb_calls[pr] = 0

\* a + b without rounding
ExactAdd(a, b) == ExactSub(a, FNeg(b))

\* the exact sum of component k of the forces of the authoritative copies
\* of the particles i, i + 1, ...
RECURSIVE ExactSum(_, _)
ExactSum(k, i) ==
  IF i > NParts THEN FZero
  ELSE ExactAdd(OwnerForce(i).f[k], ExactSum(k, i + 1))

NetForce == <<ExactSum(1, 1), ExactSum(2, 1), ExactSum(3, 1)>>

NoExternalForce == \A i \in Parts : Particle(cfg, i).ext_force = VZero

EnabledCutoffs(v) ==
  ({v.interaction_range, v.collision}
     \cup (IF v.ELECTROSTATICS THEN {v.coulomb} ELSE {})
     \cup (IF v.DIPOLES THEN {v.dipoles} ELSE {}))
  \ {INACTIVE_CUTOFF}

\* the largest of them, INACTIVE_CUTOFF when there is none
TrueCutoff(v) ==
  IF EnabledCutoffs(v) = {} THEN INACTIVE_CUTOFF
  ELSE CHOOSE m \in EnabledCutoffs(v) : \A x \in EnabledCutoffs(v) : x <= m

\* the pairs within the interaction cutoff at the positions pos
Interacting(v, pos) ==
  {pr \in Pairs : TrueCutoff(v) # INACTIVE_CUTOFF
                  /\ PairDist(pos, pr) <= TrueCutoff(v)}

\* no particle has moved more than skin / 2 since the list was built
WithinHalfSkin == \A i \in Parts : 2 * Abs(vl.disp[i]) <= vl.v.skin

\* C6: while no particle has moved more than skin / 2 since the pair list
\* was built, every pair within the interaction cutoff is in the list; and
\* a short-range pass calls the callback for every such pair
C6_PairListSound ==
  /\ WithinHalfSkin => Interacting(vl.v, vl.pos) \subseteq vl.list
  /\ vl.fresh => Interacting(vl.v, vl.pos) \subseteq vl.calls

\* two particles have moved towards each other, a pair the list was built
\* with beyond the cutoff is within it now, and the list was not rebuilt
C6_Witness ==
  /\ WithinHalfSkin
  /\ vl.fresh
  /\ \E i, j \in Parts : i # j /\ vl.disp[i] # 0 /\ vl.disp[j] # 0
  /\ \E pr \in Interacting(vl.v, vl.pos) :
       /\ pr \in vl.calls
       /\ PairDist([i \in Parts |-> vl.pos[i] - vl.disp[i]], pr)
            > TrueCutoff(vl.v)

\* the values a configured cutoff takes
CutoffValues == {INACTIVE_CUTOFF} \cup (0 .. Cutoff + 2)

\* C7: the effective cutoff of the criterion is the largest cutoff of the
\* enabled features; what is configured for a disabled feature does not
\* change it, and the list is built with it
C7_EffectiveCutoff ==
  /\ EffectiveCutoff(VerletCriterion(vl.v)) = TrueCutoff(vl.v)
  /\ \A x \in CutoffValues :
       /\ ~vl.v.ELECTROSTATICS =>
            EffectiveCutoff(VerletCriterion([vl.v EXCEPT !.coulomb = x]))
              = EffectiveCutoff(VerletCriterion(vl.v))
       /\ ~vl.v.DIPOLES =>
            EffectiveCutoff(VerletCriterion([vl.v EXCEPT !.dipoles = x]))
              = EffectiveCutoff(VerletCriterion(vl.v))
  /\ (\A i \in Parts : vl.disp[i] = 0) =>
       vl.list = {pr \in Pairs :
                    /\ TrueCutoff(vl.v) # INACTIVE_CUTOFF
                    /\ PairDist(vl.pos, pr) <= TrueCutoff(vl.v) + vl.v.skin}

\* a list rebuilt by a pass, without a pair that is within the cutoff
\* configured for the disabled electrostatics, skin added
C7_Witness ==
  /\ vl.fresh
  /\ vl.moves > 0
  /\ \A i \in Parts : vl.disp[i] = 0
  /\ ~vl.v.ELECTROSTATICS
  /\ vl.v.coulomb > TrueCutoff(vl.v)
  /\ TrueCutoff(vl.v) # INACTIVE_CUTOFF
  /\ \E pr \in Pairs :
       /\ pr \notin vl.list
       /\ PairDist(vl.pos, pr) <= vl.v.coulomb + vl.v.skin
  /\ vl.list # {}

(* ------------------------------------------------------------------ *)
(* Properties of the end of the step                                   *)
(* ------------------------------------------------------------------ *)

\* the length of v is at most that of the scalar c, exactly
ExactNorm2Leq(v, c) ==
  LET e == Min(Min(v[1][2], v[2][2]), Min(v[3][2], c[2]))
      sq(a) == (a[1] * (2 ^ (a[2] - e))) * (a[1] * (2 ^ (a[2] - e)))
  IN sq(v[1]) + sq(v[2]) + sq(v[3]) <= sq(c)

\* the accumulator now of particle i on q is what force_capping makes of the
\* accumulator before: the same, or a force above the cap rescaled
CappedFrom(before, now, force_cap) ==
  \/ /\ now = before
     /\ ~AboveCap(before.f, force_cap)
  \/ /\ AboveCap(before.f, force_cap)
     /\ now.torque = before.torque
     /\ SameSigns(before.f, now.f)
     /\ NoGrowth(before.f, now.f)
     /\ NearCap(now.f, force_cap)

\* force_capping has run on q
Capped(q) == pre_cap[q] # NoSnapshot

NamedStages ==
  <<"init_forces", "calc_long_range_forces", "short_range_loop",
    "constraints", "oif", "lb_couple", "vs_back_transfer",
    "ghosts_reduce_forces", "comfixed", "force_capping", "mark_valid">>

\* the place in that order of the stage a process is at: 0 before the
\* first, one more than the last after the last; the volume conservation
\* of the immersed boundaries goes with the stage ahead of it
Rank(l) ==
  LET s == IF StageOf(l) = "volume_conservation" THEN "oif" ELSE StageOf(l)
  IN IF s = "start" THEN 0
     ELSE IF s = "done" THEN Len(NamedStages) + 1
     ELSE CHOOSE k \in 1 .. Len(NamedStages) : NamedStages[k] = s

\* a step of process q stays in its stage or enters the next one
InOrder(q) ==
  \/ Rank(pc'[q]) = Rank(pc[q])
  \/ Rank(pc'[q]) = Rank(pc[q]) + 1

\* C12: every process runs the stages in the one order init_forces,
\* long-range, short-range, constraints, OIF, LB coupling, virtual sites,
\* ghost reduction, comfixed, force_capping, and marks the forces valid
\* last: recalc_forces becomes false in the last stage only
C12_FixedStageOrder ==
  [][\A q \in Procs :
       /\ InOrder(q)
       /\ recalc_forces'[q] # recalc_forces[q] =>
            /\ Rank(pc[q]) = Len(NamedStages)
            /\ Rank(pc'[q]) = Len(NamedStages) + 1
            /\ ~recalc_forces'[q]]_vars

\* all processes have run all stages of a system with every contributor
C12_Witness ==
  /\ AllDone
  /\ \A q \in Procs : ~recalc_forces[q]
  /\ cfg.feat = Features
  /\ cfg.force_cap > 0
  /\ Reduced
  /\ \A q \in Procs : Capped(q) /\ Len(dep[q]) = 3

(* ------------------------------------------------------------------ *)
(* Properties of the loop over the OIF objects                         *)
(* ------------------------------------------------------------------ *)

\* the all-reduced area and volume of the OIF object i
ReducedAreaVolume(c, i) ==
  <<calc_oif_global(c, 2, 0, i)[1] + calc_oif_global(c, 2, 1, i)[1],
    calc_oif_global(c, 2, 0, i)[2] + calc_oif_global(c, 2, 1, i)[2]>>

\* the area and the volume of object i are both below the noise floor
Degenerate(c, i) ==
  /\ BelowNoiseFloor(Abs(ReducedAreaVolume(c, i)[1]))
  /\ BelowNoiseFloor(Abs(ReducedAreaVolume(c, i)[2]))

\* process q has called add_oif_global_forces for object i: the loop index
\* of q has gone past i
OifApplied(q, i) == i < oif_i[q]

\* C13: when the loop over the OIF objects is over on a process, the global
\* force of every object that is not degenerate has been applied, wherever
\* a degenerate object stands in the order of the objects
C13_OthersStillApplied ==
  \A q \in Procs :
    Past(q, "oif") =>
      \A i \in 0 .. max_oif_objects(cfg) - 1 :
        ~Degenerate(cfg, i) => OifApplied(q, i)

(* ------------------------------------------------------------------ *)
(* Properties of the initialisation of the accumulators                *)
(* ------------------------------------------------------------------ *)

\* process q has run init_forces and no contributor yet
Initialised(q) == pc[q] = "calc_long_range_forces"

\* particle i swims and its engine force is applied to the particle
SwimsOnItself(c, i) ==
  /\ ExtSetup(c.ext).swim[i].swimming
  /\ ~ExtSetup(c.ext).swim[i].on_fluid

\* the external contribution to particle i
ExternalContribution(c, i) ==
  LET e == ExtSetup(c.ext)
  IN ParticleForce(
       IF SwimsOnItself(c, i)
       THEN VAdd(VOfI(e.ext_force[i]),
                 VScale(VOfI(e.swim[i].director), FInt(e.swim[i].f_swim)))
       ELSE VOfI(e.ext_force[i]),
       VOfI(e.ext_torque[i]))

\* process q still holds what the earlier step left
StillStale(q) ==
  /\ pc[q] = "start"
  /\ \A i \in Parts : f[q][i] = StaleForce

\* C14: after init_forces, whatever the accumulators held, the force and
\* the torque of every ghost are zero, and those of every local particle
\* are its external force and torque, plus f_swim along the director when
\* and only when it swims with its engine force not on the fluid
C14_InitForces ==
  \A q \in Procs :
    Initialised(q) =>
      /\ \A i \in ghost_particles(cfg, 2, q) : f[q][i] = PFZero
      /\ \A i \in local_particles(cfg, 2, q) :
           f[q][i] = ExternalContribution(cfg, i)

\* init_forces has run on accumulators that held stale values, for a local
\* swimmer and a ghost
C14_Witness ==
  \E q \in Procs :
    /\ Initialised(q)
    /\ StillStale(1 - q)
    /\ ghost_particles(cfg, 2, q) # {}
    /\ \E i \in local_particles(cfg, 2, q) :
         /\ SwimsOnItself(cfg, i)
         /\ f[q][i].f # VZero

\* particle i has an external force or torque, or swims on itself
HasExternal(c, i) ==
  \/ ExtSetup(c.ext).ext_force[i] # IZero
  \/ ExtSetup(c.ext).ext_torque[i] # IZero
  \/ SwimsOnItself(c, i)

\* C15 as stated: before any contributor runs, the force and the torque of
\* every local particle and of every ghost are zero
C15_AllZeroAtStart ==
  \A q \in Procs :
    Initialised(q) => \A i \in Parts : f[q][i] = PFZero

\* C15, amended: after init_forces and before any contributor runs, the
\* force and the torque of every ghost are zero, and so are those of every
\* local particle without an external force or torque that does not swim
\* with its engine force on itself
C15_ZeroUnlessExternal ==
  \A q \in Procs :
    Initialised(q) =>
      \A i \in Parts :
        (i \in ghost_particles(cfg, 2, q) \/ ~HasExternal(cfg, i)) =>
          f[q][i] = PFZero

\* init_forces has run on stale accumulators and has left a local particle
\* with its external force and torque, another local particle with zero
C15_Witness ==
  \E q \in Procs :
    /\ Initialised(q)
    /\ StillStale(1 - q)
    /\ \E i, j \in local_particles(cfg, 2, q) :
         /\ HasExternal(cfg, i)
         /\ f[q][i].f # VZero
         /\ f[q][i].torque # VZero
         /\ ~HasExternal(cfg, j)
         /\ f[q][j] = PFZero

(* ------------------------------------------------------------------ *)
(* Properties of the synchronisation of the processes                  *)
(* ------------------------------------------------------------------ *)

\* process q is in a collective that the other process has not entered:
\* the guard of its next step, AllReduceReady or the presence of all
\* processes at the reduction, is false
Waiting(q) ==
  \/ /\ pc[q] \in {"oif_all_reduce", "comfixed_all_reduce"}
     /\ ~AllReduceReady(q)
  \/ /\ pc[q] = "ghosts_reduce_forces"
     /\ ~(\A r \in Procs : pc[r] = "ghosts_reduce_forces")

\* the reduction of the ghost forces has started only when every process
\* had completed its contributions
ReductionIsBarrier ==
  Reduced => \A q \in Procs : Past(q, "vs_back_transfer")

CloseNow(c) ==
  {pr \in Pairs : Abs(Vec21(c, pr[1], pr[2])) <= collision_distance}

\* the pairs in the collision queue of process q
QueuedPairs(q) ==
  {PairKey(collision_queue[q][k][1], collision_queue[q][k][2]) :
     k \in 1 .. Len(collision_queue[q])}

\* the bond of particle 1 to particle 2 exists and is stretched
BondStretched(c) ==
  "bonded" \in c.feat /\ Abs(Vec21(c, 1, 2)) >= breakage_length

\* C17: no step of calculate_forces changes the bonds; after the start of
\* the step and up to the short-range pass both queues are empty; after
\* the pass the collision queue holds the close pairs the pass has met,
\* each once, and none when the collision mode is OFF, and the breakage
\* queue holds the stretched bonds of the local particles, and nothing
\* else
C17_CollectThenApply ==
  /\ [](\A q \in Procs :
          /\ pc[q] \in {"init_forces", "calc_long_range_forces",
                        "short_range_loop"} =>
               collision_queue[q] = <<>> /\ breakage_queue[q] = <<>>
          /\ Past(q, "short_range_loop") =>
               /\ QueuedPairs(q) \subseteq
                    (IF collision_mode_on(cfg) THEN CloseNow(cfg) ELSE {})
               /\ Len(collision_queue[q]) = Cardinality(QueuedPairs(q))
               /\ \A pr \in QueuedPairs(q) :
                    Owner(cfg, 2, pr[1]) = q \/ Owner(cfg, 2, pr[2]) = q
               /\ (\A r \in Procs : Past(r, "short_range_loop")) =>
                    /\ collision_mode_on(cfg) =>
                         QueuedPairs(0) \cup QueuedPairs(1) = CloseNow(cfg)
                    /\ QueuedPairs(0) \cap QueuedPairs(1) = {}
               /\ breakage_queue[q] =
                    IF BondStretched(cfg) /\ Owner(cfg, 2, 1) = q
                    THEN <<(<<1, 2>>)>> ELSE <<>>)
  /\ [][cfg' = cfg]_vars

\* a process has queued a collision and a stretched bond in its pass,
\* while the other process still holds the stale events of an earlier step,
\* of a pair that is not close now
C17_Witness ==
  \E q \in Procs :
    /\ Past(q, "short_range_loop")
    /\ collision_queue[q] # <<>>
    /\ breakage_queue[q] # <<>>
    /\ pc[1 - q] = "start"
    /\ collision_queue[1 - q] = <<StaleCollision>>
    /\ breakage_queue[1 - q] = <<StaleBreakage>>
    /\ PairKey(StaleCollision[1], StaleCollision[2]) \notin CloseNow(cfg)

(* ------------------------------------------------------------------ *)
(* Properties of the collectives of the loop over the OIF objects      *)
(* ------------------------------------------------------------------ *)

\* the values of the program counter of a process
Labels ==
  {StageOrder[k] : k \in 1 .. Len(StageOrder)}
    \cup {"oif_all_reduce", "comfixed_all_reduce"}

\* process q is inside calculate_forces and does not wait in a collective
CanGo(q) == pc[q] # "done" /\ ~Waiting(q)

\* process q goes on to another statement
Moves(q) ==
  /\ CanGo(q)
  /\ \E p \in [Procs -> Labels] : pc' = p /\ p[q] # pc[q]

\* every process keeps running its code: a process that is inside
\* calculate_forces and does not wait in a collective goes on
Fairness == \A q \in Procs : WF_pc(Moves(q))

SpecFair == Init /\ [][Next]_vars /\ Fairness

\* the number of all_reduce collectives of the loop over the OIF objects
\* that process q has entered (their parts are pairs of area and volume)
RECURSIVE OifCollectivesIn(_)
OifCollectivesIn(d) ==
  IF d = <<>> THEN 0
  ELSE (IF Len(Head(d)) = 2 THEN 1 ELSE 0) + OifCollectivesIn(Tail(d))

OifCollectives(q) == OifCollectivesIn(dep[q])

\* the forces are marked valid on all processes
AllValid == \A q \in Procs : ~recalc_forces[q]

\* the processes that have left the loop have left it at the same object
\* after the same number of collectives, and no process is in an
\* all_reduce that a process that has left the loop has not entered
SameCollectives ==
  \A q, r \in Procs :
    /\ (Past(q, "oif") /\ Past(r, "oif")) =>
         /\ oif_i[q] = oif_i[r]
         /\ OifCollectives(q) = OifCollectives(r)
    /\ (pc[q] = "oif_all_reduce" /\ Past(r, "oif")) =>
         OifCollectives(r) >= OifCollectives(q)

\* C18: all processes enter the same all_reduce collectives in the loop
\* over the OIF objects and leave the loop at the same object, no process
\* is left in a collective that another does not enter, and the forces are
\* eventually marked valid on all processes
C18_SameCollectives ==
  /\ []SameCollectives
  /\ <>[]AllValid

\* the processes have left the loop by the break at the second object,
\* after two collectives each, and the forces are valid
C18_Witness ==
  /\ AllValid
  /\ cfg.oif = <<TRUE, FALSE>>
  /\ \A q \in Procs : oif_i[q] = 1 /\ OifCollectives(q) = 2
  /\ \E q \in Procs : OifMembers(cfg, 0) \cap local_particles(cfg, 2, q) = {}

(* ------------------------------------------------------------------ *)
(* Properties of force_capping: what it leaves alone                   *)
(* ------------------------------------------------------------------ *)

\* the accumulators before and after the k-th capping
CapBefore(k) == capst.hist[k]

CapAfter(k) == IF k = capst.n THEN capst.F ELSE capst.hist[k + 1]

\* what every capping leaves alone whatever the forces: everything when
\* force_cap <= 0, every torque, every particle outside the range
CapFrame(k) ==
  /\ ~FLess(FZero, capst.cap) => CapAfter(k) = CapBefore(k)
  /\ \A i \in DOMAIN capst.F :
       /\ CapAfter(k)[i].torque = CapBefore(k)[i].torque
       /\ i \notin CapParticles => CapAfter(k)[i] = CapBefore(k)[i]

\* C19 as stated: force_capping modifies nothing when force_cap <= 0,
\* never changes a torque or a particle outside the range, and never
\* changes a force whose magnitude is at most force_cap
C19_FrameOfExactMagnitude ==
  \A k \in 1 .. capst.n :
    /\ CapFrame(k)
    /\ \A i \in CapParticles :
         ExactNorm2Leq(CapBefore(k)[i].f, capst.cap) =>
           CapAfter(k)[i].f = CapBefore(k)[i].f

\* C19, amended: force_capping modifies nothing when force_cap <= 0,
\* never changes a torque or a particle outside the range, and never
\* changes a force whose squared magnitude, as norm2() computes it, is at
\* most force_cap squared as computed; a force of magnitude at most
\* force_cap that rounding puts above is rescaled as in C9
C19_FrameOfComputedMagnitude ==
  \A k \in 1 .. capst.n :
    /\ CapFrame(k)
    /\ \A i \in CapParticles :
         /\ ~AboveCap(CapBefore(k)[i].f, capst.cap) =>
              CapAfter(k)[i].f = CapBefore(k)[i].f
         /\ ExactNorm2Leq(CapBefore(k)[i].f, capst.cap) =>
              /\ SameSigns(CapBefore(k)[i].f, CapAfter(k)[i].f)
              /\ NoGrowth(CapBefore(k)[i].f, CapAfter(k)[i].f)
              /\ \/ CapAfter(k)[i].f = CapBefore(k)[i].f
                 \/ NearCap(CapAfter(k)[i].f, capst.cap)

\* a capping with a positive cap has rescaled one force of the range and
\* left alone a nonzero force below the cap, a nonzero torque and a
\* force above the cap outside the range
C19_Witness ==
  /\ capst.n = 1
  /\ FLess(FZero, capst.cap)
  /\ \E i, j \in CapParticles :
       /\ CapPre(i) # VZero
       /\ ~AboveCap(CapPre(i), capst.cap)
       /\ capst.F[i] = capst.hist[1][i]
       /\ capst.F[i].torque # VZero
       /\ AboveCap(CapPre(j), capst.cap)
       /\ CapOnce(j) # CapPre(j)
  /\ \E i \in DOMAIN capst.F \ CapParticles :
       /\ AboveCap(CapPre(i), capst.cap)
       /\ capst.F[i] = capst.hist[1][i]

(* ------------------------------------------------------------------ *)
(* gay_berne_set_params, statement by statement                        *)
(* ------------------------------------------------------------------ *)

GbTypes == 0 .. NTypes - 1

\* the type pairs that index the interaction parameters
GbPairs == {{a, b} : a, b \in GbTypes}

\* the Gay-Berne part of IA_parameters
GbParams(eps, sig, cut, k1, k2, mu, nu, chi1, chi2) ==
  [eps |-> eps, sig |-> sig, cut |-> cut, k1 |-> k1, k2 |-> k2,
   mu |-> mu, nu |-> nu, chi1 |-> chi1, chi2 |-> chi2]

\* a record no call has written, and one an earlier call has left
GbUnset ==
  GbParams(FZero, FZero, FZero, FZero, FZero, FZero, FZero, FZero, FZero)

GbStale ==
  GbParams(FInt(9), FInt(8), FInt(7), FInt(6), FInt(5), FInt(4), FInt(3),
           FRound(35, -5), FRound(1, -1))

\* the arguments of the calls
GbArgs ==
  {[eps |-> FInt(2), sig |-> FInt(1), cut |-> FInt(4),
    k1 |-> FInt(k1), k2 |-> FInt(k2), mu |-> mu, nu |-> FInt(1)] :
     k1, k2 \in 1 .. MaxK, mu \in {FInt(1), FInt(2), FRound(1, -1)}}

\* pow(x, y) for the exponents 1 / mu of the calls: 1, 1/2 and 2
pow(x, y) ==
  CASE y = FInt(1) -> x
    [] y = FInt(2) -> FMul(x, x)
    [] y = FRound(1, -1) -> FSqrt(x)

\* ((k1 * k1) - 1) / ((k1 * k1) + 1)
GbChi1(k1) ==
  FDiv(FSub(FMul(k1, k1), FInt(1)), FAdd(FMul(k1, k1), FInt(1)))

\* (pow(k2, 1 / mu) - 1) / (pow(k2, 1 / mu) + 1)
GbChi2(k2, mu) ==
  FDiv(FSub(pow(k2, FDiv(FInt(1), mu)), FInt(1)),
       FAdd(pow(k2, FDiv(FInt(1), mu)), FInt(1)))

\* the statements with the broadcast ahead of the dependent parameters
GbStatements_BcastBeforeChi ==
  <<"eps", "sig", "cut", "k1", "k2", "mu", "nu",
    "mpi_bcast_ia_params", "chi1", "chi2", "return">>

\* the statements that follow the check of data, in their order
GbStatements ==
  <<"eps", "sig", "cut", "k1", "k2", "mu", "nu",
    "chi1", "chi2", "mpi_bcast_ia_params", "return">>

GbGiven == {"eps", "sig", "cut", "k1", "k2", "mu", "nu"}

\* the statement the call is at
GbAt == IF gb.pc = "body" THEN GbStatements[gb.at] ELSE gb.pc

\* the record data points to
GbData == gb.ia[{gb.part_type_a, gb.part_type_b}]

NotGb ==
  <<cfg, f, pc, oif_i, dep, recalc_forces, nb_calls, ledger, inexact,
    pre_reduce, pre_cap, capst, vl, collision_queue, breakage_queue>>

\* before the call: the interaction parameters of this process, ia, and
\* of the other processes, remote, are unset or left by earlier calls
GbInit ==
  /\ \E stale \in BOOLEAN :
       LET table == [p \in GbPairs |-> IF stale THEN GbStale ELSE GbUnset]
       IN gb = [pc |-> "idle", at |-> 0, part_type_a |-> 0,
                part_type_b |-> 0, args |-> CHOOSE a \in GbArgs : TRUE,
                data |-> FALSE, ia |-> table, remote |-> table,
                nbcast |-> 0, ret |-> "none"]
  /\ cfg = CHOOSE c \in Configs : TRUE
  /\ f = [q \in Procs |-> [i \in Parts |-> PFZero]]
  /\ pc = [q \in Procs |-> "done"]
  /\ oif_i = [q \in Procs |-> 0]
  /\ dep = [q \in Procs |-> <<>>]
  /\ recalc_forces = [q \in Procs |-> FALSE]
  /\ nb_calls = [pr \in Pairs |-> 0]
  /\ ledger = [i \in Parts |-> IZero]
  /\ inexact = FALSE
  /\ pre_reduce = NoSnapshot
  /\ pre_cap = [q \in Procs |-> NoSnapshot]
  /\ capst = CapIdle
  /\ vl = VlIdle
  /\ collision_queue = [q \in Procs |-> <<>>]
  /\ breakage_queue = [q \in Procs |-> <<>>]

\* IA_parameters *data = get_ia_param_safe(part_type_a, part_type_b):
\* a record of the pair, or none
GbCall ==
  /\ gb.pc = "idle"
  /\ \E a, b \in GbTypes, args \in GbArgs, data \in BOOLEAN :
       gb' = [gb EXCEPT !.pc = "check", !.part_type_a = a,
                        !.part_type_b = b, !.args = args, !.data = data]
  /\ UNCHANGED NotGb

\* if (!data) return ES_ERROR
GbNoData ==
  /\ gb.pc = "check"
  /\ ~gb.data
  /\ gb' = [gb EXCEPT !.pc = "returned", !.ret = "ES_ERROR"]
  /\ UNCHANGED NotGb

GbHasData ==
  /\ gb.pc = "check"
  /\ gb.data
  /\ gb' = [gb EXCEPT !.pc = "body", !.at = 1]
  /\ UNCHANGED NotGb

\* data->gb.eps = eps, and so on to data->gb.nu = nu
GbStore ==
  /\ GbAt \in GbGiven
  /\ gb' = [gb EXCEPT
              !.ia[{gb.part_type_a, gb.part_type_b}][GbAt] = gb.args[GbAt],
              !.at = @ + 1]
  /\ UNCHANGED NotGb

\* data->gb.chi1 = ...
GbStoreChi1 ==
  /\ GbAt = "chi1"
  /\ gb' = [gb EXCEPT
              !.ia[{gb.part_type_a, gb.part_type_b}].chi1 = GbChi1(GbData.k1),
              !.at = @ + 1]
  /\ UNCHANGED NotGb

\* data->gb.chi2 = ...
GbStoreChi2 ==
  /\ GbAt = "chi2"
  /\ gb' = [gb EXCEPT
              !.ia[{gb.part_type_a, gb.part_type_b}].chi2 =
                 GbChi2(GbData.k2, GbData.mu),
              !.at = @ + 1]
  /\ UNCHANGED NotGb

\* mpi_bcast_ia_params(part_type_a, part_type_b): the other processes
\* receive the record of the pair as it is now
GbBroadcast ==
  /\ GbAt = "mpi_bcast_ia_params"
  /\ gb' = [gb EXCEPT
              !.remote[{gb.part_type_a, gb.part_type_b}] = GbData,
              !.nbcast = @ + 1,
              !.at = @ + 1]
  /\ UNCHANGED NotGb

\* return ES_OK
GbReturn ==
  /\ GbAt = "return"
  /\ gb' = [gb EXCEPT !.pc = "returned", !.ret = "ES_OK"]
  /\ UNCHANGED NotGb

GbNext ==
  \/ GbCall
  \/ GbNoData
  \/ GbHasData
  \/ GbStore
  \/ GbStoreChi1
  \/ GbStoreChi2
  \/ GbBroadcast
  \/ GbReturn

SpecGb == GbInit /\ [][GbNext]_vars

(* ------------------------------------------------------------------ *)
(* Properties of gay_berne_set_params                                  *)
(* ------------------------------------------------------------------ *)

\* the interaction parameters before the call: all pairs hold one record
GbBefore(table) ==
  \/ table = [p \in GbPairs |-> GbStale]
  \/ table = [p \in GbPairs |-> GbUnset]

\* the table is as before the call but for the given pair
GbOthersKept(table) ==
  \E r \in {GbStale, GbUnset} :
    \A p \in GbPairs \ {{gb.part_type_a, gb.part_type_b}} : table[p] = r

\* the record the call is to leave
GbExpected ==
  GbParams(gb.args.eps, gb.args.sig, gb.args.cut, gb.args.k1, gb.args.k2,
           gb.args.mu, gb.args.nu, GbChi1(gb.args.k1),
           GbChi2(gb.args.k2, gb.args.mu))

\* C20: without a parameter record gay_berne_set_params returns ES_ERROR
\* and has changed no interaction parameter and broadcast nothing; with
\* one it returns ES_OK, the record of the pair then holds the seven
\* given parameters and chi1 and chi2 derived from them, no other record
\* has changed, and the one broadcast it makes, of that pair, is made when
\* all nine are written
C20_SetParams ==
  /\ gb.pc # "idle" /\ ~gb.data =>
       /\ GbBefore(gb.ia)
       /\ GbBefore(gb.remote)
       /\ gb.nbcast = 0
       /\ gb.ret \in {"none", "ES_ERROR"}
       /\ gb.pc = "returned" => gb.ret = "ES_ERROR"
  /\ gb.pc # "idle" /\ gb.data =>
       /\ GbOthersKept(gb.ia)
       /\ GbOthersKept(gb.remote)
       /\ gb.ret \in {"none", "ES_OK"}
       /\ gb.nbcast <= 1
       /\ gb.nbcast = 0 => GbBefore(gb.remote)
       /\ gb.nbcast = 1 =>
            /\ GbData = GbExpected
            /\ gb.remote[{gb.part_type_a, gb.part_type_b}] = GbExpected
       /\ gb.pc = "returned" =>
            /\ gb.ret = "ES_OK"
            /\ gb.nbcast = 1

\* a call has returned ES_OK over a record an earlier call had left,
\* with chi1 and chi2 not zero
C20_Witness ==
  /\ gb.pc = "returned"
  /\ gb.ret = "ES_OK"
  /\ gb.part_type_a # gb.part_type_b
  /\ gb.remote[{gb.part_type_a}] = GbStale
  /\ gb.remote[{gb.part_type_a, gb.part_type_b}] = GbExpected
  /\ GbExpected.chi1 # FZero
  /\ GbExpected.chi2 # FZero
  /\ GbExpected.chi2 # GbExpected.chi1

====
